---------------------------- MODULE Spec2Model ----------------------------
(***************************************************************************)
(* Model of the bend reduction engine of reduce_bend_algorithm.py          *)
(* (classes RbCollection, RbGeom, Bend, BendReduced, ReduceBend).          *)
(*                                                                         *)
(* Coordinates are integers.  An angle is kept as the pair (sin, cos) up   *)
(* to a positive factor, a length as 100 times its value rounded down, an  *)
(* area as twice its value (area2) or in 1/1000 units where the code       *)
(* compares it with the minimum adjusted area.  The near-zero tolerances   *)
(* ZERO_RELATIVE and ZERO_ANGLE are below the resolution of the integer    *)
(* grid: "<= ZERO_RELATIVE" is "= 0".                                      *)
(* Vertex and bend indices are 0-based as in the source: At(s, k).         *)
(***************************************************************************)
EXTENDS Integers, Sequences, FiniteSets, TLC

(***************************************************************************)
(* Bounds of the model.                                                    *)
(***************************************************************************)
\* number of vertices of the generated open lines
MaxLen == 5
\* the ordinates of a generated line are 10 * (0 .. MaxY)
MaxY == 1

(***************************************************************************)
(* Program constants.                                                      *)
(***************************************************************************)
ANTI_CLOCK_WISE == -1
CLOCK_WISE == 0
\* min_nbr_pass of _manage_reduce_bend
min_nbr_pass == 1

(***************************************************************************)
(* Sequences with the 0-based indices of the source.                       *)
(***************************************************************************)
At(s, k) == s[k + 1]

Last(s) == s[Len(s)]

\* s[a:b] of Python, 0 <= a, b <= len(s)
Slice(s, a, b) == IF b <= a THEN << >> ELSE SubSeq(s, a + 1, b)

\* the indices 0 .. len(s)-1
Indices(s) == 0 .. (Len(s) - 1)

Abs(x) == IF x < 0 THEN -x ELSE x

Min2(a, b) == IF a <= b THEN a ELSE b

Max2(a, b) == IF a >= b THEN a ELSE b

Sign(x) == IF x > 0 THEN 1 ELSE IF x < 0 THEN -1 ELSE 0

RECURSIVE SumSeq(_)
SumSeq(s) == IF s = << >> THEN 0 ELSE s[1] + SumSeq(Tail(s))

\* round(a / b) for b > 0
RoundDiv(a, b) == (2 * a + b) \div (2 * b)

(***************************************************************************)
(* Plane geometry on integer points <<x, y>>.                              *)
(***************************************************************************)
Sub(p, q) == << p[1] - q[1], p[2] - q[2] >>

CrossV(u, v) == u[1] * v[2] - u[2] * v[1]

DotV(u, v) == u[1] * v[1] + u[2] * v[2]

\* > 0 when o, a, b turn left
Cross(o, a, b) == CrossV(Sub(a, o), Sub(b, o))

Dist2(p, q) == DotV(Sub(p, q), Sub(p, q))

\* floor of the square root, by bisection
RECURSIVE IsqrtIn(_, _, _)
IsqrtIn(n, lo, hi) ==
    IF hi - lo <= 1 THEN lo
    ELSE LET mid == (lo + hi) \div 2
         IN  IF mid * mid <= n THEN IsqrtIn(n, mid, hi) ELSE IsqrtIn(n, lo, mid)

Isqrt(n) == IF n <= 0 THEN 0 ELSE IsqrtIn(n, 0, 46341)

\* 100 * distance(p, q), rounded down
Length100(p, q) == Isqrt(10000 * Dist2(p, q))

\* q lies on the closed segment [a, b]
OnSegment(a, b, q) ==
    /\ Cross(a, b, q) = 0
    /\ Min2(a[1], b[1]) <= q[1] /\ q[1] <= Max2(a[1], b[1])
    /\ Min2(a[2], b[2]) <= q[2] /\ q[2] <= Max2(a[2], b[2])

\* the closed segments [a, b] and [c, d] share a point
SegmentsIntersect(a, b, c, d) ==
    LET d1 == Sign(Cross(a, b, c))
        d2 == Sign(Cross(a, b, d))
        d3 == Sign(Cross(c, d, a))
        d4 == Sign(Cross(c, d, b))
    IN  \/ (d1 * d2 < 0 /\ d3 * d4 < 0)
        \/ OnSegment(a, b, c) \/ OnSegment(a, b, d)
        \/ OnSegment(c, d, a) \/ OnSegment(c, d, b)

\* the coordinate of p along the dominant axis of the segment [a, b]
Along(a, b, p) == IF a[1] # b[1] THEN p[1] ELSE p[2]

\* the segment [a, b] without a neighbourhood of its two ends (the trimmed
\* sub line of a bend) shares a point with the closed segment [c, d]
TrimmedIntersects(a, b, c, d) ==
    IF a = b THEN OnSegment(c, d, a)
    ELSE IF Cross(a, b, c) = 0 /\ Cross(a, b, d) = 0
         THEN /\ Min2(Along(a, b, c), Along(a, b, d)) < Max2(Along(a, b, a), Along(a, b, b))
              /\ Max2(Along(a, b, c), Along(a, b, d)) > Min2(Along(a, b, a), Along(a, b, b))
         ELSE /\ Sign(Cross(c, d, a)) * Sign(Cross(c, d, b)) < 0
              /\ Sign(Cross(a, b, c)) * Sign(Cross(a, b, d)) <= 0

\* the consecutive vertex pairs of a vertex list, in order
Segments(pts) == [k \in 1 .. (Len(pts) - 1) |-> << pts[k], pts[k + 1] >>]

\* twice the signed area of the ring pts (first vertex = last vertex)
SignedArea2(pts) ==
    SumSeq([k \in 1 .. (Len(pts) - 1) |-> CrossV(pts[k], pts[k + 1])])

Area2(pts) == Abs(SignedArea2(pts))

\* 100 * the length of a vertex list
PathLength100(pts) ==
    SumSeq([k \in 1 .. (Len(pts) - 1) |-> Length100(pts[k], pts[k + 1])])

\* position of q against the ring pts: "on" its boundary, "in" or "out"
\* (crossing number)
PointInRing(pts, q) ==
    LET n == Len(pts) - 1
        crosses(k) ==
            LET p == pts[k]
                r == pts[k + 1]
            IN  /\ (p[2] > q[2]) # (r[2] > q[2])
                /\ IF r[2] > p[2] THEN Cross(p, r, q) > 0 ELSE Cross(r, p, q) > 0
    IN  IF \E k \in 1 .. n : OnSegment(pts[k], pts[k + 1], q) THEN "on"
        ELSE IF Cardinality({k \in 1 .. n : crosses(k)}) % 2 = 1 THEN "in"
        ELSE "out"

Double(p) == << 2 * p[1], 2 * p[2] >>

DoubleAll(pts) == [k \in 1 .. Len(pts) |-> Double(pts[k])]

\* the segments [a, b] and [b, d] fold back over each other
FoldsBack(a, b, d) == Cross(a, b, d) = 0 /\ DotV(Sub(a, b), Sub(d, b)) > 0

\* an OGC simple line: no zero length segment, consecutive segments share
\* only their common vertex, the others share no point (the first and the
\* last segment of a closed line share the start/end vertex)
IsSimple(pts) ==
    LET n == Len(pts) - 1
        closed == pts[1] = pts[Len(pts)]
    IN  /\ \A k \in 1 .. n : pts[k] # pts[k + 1]
        /\ \A k \in 1 .. n : \A m \in (k + 1) .. n :
              IF m = k + 1
              THEN ~FoldsBack(pts[k], pts[k + 1], pts[m + 1])
              ELSE IF closed /\ k = 1 /\ m = n
              THEN ~FoldsBack(pts[m], pts[1], pts[2])
              ELSE ~SegmentsIntersect(pts[k], pts[k + 1], pts[m], pts[m + 1])

(***************************************************************************)
(* More list helpers.                                                      *)
(***************************************************************************)
\* the elements of a finite set of integers in increasing order
RECURSIVE SortedSeq(_)
SortedSeq(S) ==
    IF S = {} THEN << >>
    ELSE LET m == CHOOSE x \in S : \A y \in S : x <= y
         IN  << m >> \o SortedSeq(S \ {m})

Reverse(s) == [k \in 1 .. Len(s) |-> s[Len(s) + 1 - k]]

\* the 0-based indices of s sorted by key (ascending), ties in index order
\* (list.sort is stable)
RECURSIVE SortIndices(_, _)
SortIndices(S, key) ==
    IF S = {} THEN << >>
    ELSE LET m == CHOOSE x \in S :
                     \A y \in S : key[x] < key[y] \/ (key[x] = key[y] /\ x <= y)
         IN  << m >> \o SortIndices(S \ {m}, key)

\* s without its elements at the 0-based indices a .. b
DeleteRange(s, a, b) == Slice(s, 0, a) \o Slice(s, b + 1, Len(s))

(***************************************************************************)
(* RbGeom: one line (open or closed) or one point.                         *)
(***************************************************************************)
\* QgsLineString.removeDuplicateNodes: drops a vertex equal to the one kept
\* before it; a line of 2 vertices or less is left alone
RECURSIVE DropRepeats(_, _)
DropRepeats(prev, rest) ==
    IF rest = << >> THEN << >>
    ELSE IF rest[1] = prev THEN DropRepeats(prev, Tail(rest))
    ELSE << rest[1] >> \o DropRepeats(rest[1], Tail(rest))

removeDuplicateNodes(pts) ==
    IF Len(pts) <= 2 THEN pts ELSE << pts[1] >> \o DropRepeats(pts[1], Tail(pts))

\* RbGeom.__init__
RbGeom(id, pts, original_geom_type) ==
    LET base == [id |-> id, original_geom_type |-> original_geom_type,
                 qgs_geom |-> pts, is_simplest |-> FALSE, is_closed |-> FALSE,
                 need_pivot |-> FALSE, bends |-> << >>, nbr_pivot |-> 0]
        closedRing == [base EXCEPT !.is_closed = TRUE, !.need_pivot = TRUE]
        simplest == [base EXCEPT !.is_simplest = TRUE]
    IN  IF original_geom_type = "Point" THEN simplest
        ELSE IF original_geom_type = "LineString"
        THEN IF PathLength100(pts) > 0
             THEN IF pts[1] = Last(pts)
                  THEN IF SignedArea2(pts) # 0 THEN closedRing ELSE simplest
                  ELSE base
             ELSE simplest
        ELSE IF Area2(pts) > 0 THEN closedRing ELSE simplest

\* The angle of QgsGeometryUtils.angleBetweenThreePoints(p1, p2, p3), in
\* [0, 2 pi), as (s, c) = (sin, cos) of it times a positive factor;
\* atan2(0, 0) = 0 makes a zero vector count as the direction (1, 0).
angleBetweenThreePoints(p1, p2, p3) ==
    LET u1 == IF p1 = p2 THEN << 1, 0 >> ELSE Sub(p1, p2)
        u3 == IF p3 = p2 THEN << 1, 0 >> ELSE Sub(p3, p2)
    IN  [s |-> CrossV(u3, u1), c |-> DotV(u3, u1)]

\* angle >= pi
AngleAtLeastPi(a) == a.s < 0 \/ (a.s = 0 /\ a.c < 0)

\* abs(angle - pi) <= ZERO_ANGLE or abs(angle) <= ZERO_ANGLE
AngleIsFlat(a) == a.s = 0

\* RbGeom.get_angles: the angle at each vertex (not at the ends of an open
\* line; a closed line gets its last but one vertex in front)
get_angles(rb_geom) ==
    IF rb_geom.original_geom_type = "Point" THEN << >>
    ELSE LET pts == rb_geom.qgs_geom
             xy == IF rb_geom.is_closed
                   THEN << pts[Len(pts) - 1] >> \o pts
                   ELSE pts
         IN  [k \in 1 .. (Len(xy) - 2) |->
                 angleBetweenThreePoints(xy[k], xy[k + 1], xy[k + 2])]

(***************************************************************************)
(* Bend.                                                                   *)
(***************************************************************************)
\* ReduceBend.calculate_min_adj_area = .75 * pi * (d / 2) ** 2, in 1/1000
calculate_min_adj_area(diameter_tol) ==
    589 * diameter_tol * diameter_tol + (49 * diameter_tol * diameter_tol) \div 1000

\* an area given as area2 (twice its value), in 1/1000
Area1000(area2) == 500 * area2

\* ReduceBend.calculate_adj_area, in 1/1000, of a perimeter given as 100
\* times its value: area * (.75 / (4 * area * pi / perimeter ** 2))
\* = .75 * perimeter ** 2 / (4 * pi).  A zero area or perimeter raises
\* ZeroDivisionError: see BendRaises.
calculate_adj_area(area2, perimeter100) ==
    (((perimeter100 * perimeter100) \div 1000) * 597) \div 100

\* ReduceBend.create_polygon: the vertices i .. j and i again
create_polygon(i, j, qgs_points) ==
    IF i < j
    THEN Slice(qgs_points, i, j + 1) \o << At(qgs_points, i) >>
    ELSE Slice(qgs_points, i, Len(qgs_points)) \o Slice(qgs_points, 0, j + 1)
             \o << At(qgs_points, i) >>

\* Bend.__init__
Bend(i, j, qgs_polygon) ==
    [i |-> i, j |-> j, qgs_geom_bend |-> qgs_polygon,
     area |-> Area2(qgs_polygon),
     perimeter |-> PathLength100(qgs_polygon),
     adj_area |-> calculate_adj_area(Area2(qgs_polygon), PathLength100(qgs_polygon)),
     to_reduce |-> FALSE, direction |-> "None"]

\* Bend.__init__ raises ZeroDivisionError in calculate_adj_area
BendRaises(qgs_polygon) == Area2(qgs_polygon) = 0 \/ PathLength100(qgs_polygon) = 0

\* centroid of a ring of non zero area, doubled and rounded to the grid
Centroid2(pts) ==
    LET n == Len(pts) - 1
        S == SignedArea2(pts)
        nx == SumSeq([k \in 1 .. n |->
                         (pts[k][1] + pts[k + 1][1]) * CrossV(pts[k], pts[k + 1])])
        ny == SumSeq([k \in 1 .. n |->
                         (pts[k][2] + pts[k + 1][2]) * CrossV(pts[k], pts[k + 1])])
    IN  IF S > 0 THEN << RoundDiv(2 * nx, 3 * S), RoundDiv(2 * ny, 3 * S) >>
        ELSE << RoundDiv(-2 * nx, -3 * S), RoundDiv(-2 * ny, -3 * S) >>

(***************************************************************************)
(* Bend detection, pivot of a closed line, choice of the bends to reduce.  *)
(***************************************************************************)
Opposite(o) == IF o = CLOCK_WISE THEN ANTI_CLOCK_WISE ELSE CLOCK_WISE

\* the orientations of detect_bends with the two opposite orientations put
\* in front and at the end
WithEnds(orientation) ==
    IF Len(orientation) >= 1
    THEN << Opposite(orientation[1]) >> \o orientation \o << Opposite(Last(orientation)) >>
    ELSE orientation

\* the orientations of a closed line: none when they are all the same, else
\* without the one of the start/end
ClosedOrientation(orientation) ==
    IF Cardinality({orientation[k] : k \in 1 .. Len(orientation)}) = 1
    THEN << >>
    ELSE Tail(orientation)

\* angle >= pi is CLOCK_WISE
Orientations(angles) ==
    [k \in 1 .. Len(angles) |->
        IF AngleAtLeastPi(angles[k]) THEN CLOCK_WISE ELSE ANTI_CLOCK_WISE]

\* the orientation list of detect_bends
Orientation(rb_geom) ==
    WithEnds(IF rb_geom.is_closed
             THEN ClosedOrientation(Orientations(get_angles(rb_geom)))
             ELSE Orientations(get_angles(rb_geom)))

\* the inflexion list of detect_bends
Inflexion(orientation) ==
    SortedSeq({i \in 0 .. (Len(orientation) - 2) :
                  At(orientation, i) # At(orientation, i + 1)})

\* the bends reaching one vertex further than the next inflexion
SpansOfLong(inflexion) ==
    [k \in 1 .. (Len(inflexion) - 1) |->
        << inflexion[k],
           IF k + 1 < Len(inflexion) THEN inflexion[k + 1] + 2 ELSE inflexion[k + 1] + 1 >>]

\* the (i, j) of the bends of an inflexion list
SpansOf(inflexion) ==
    [k \in 1 .. (Len(inflexion) - 1) |-> << inflexion[k], inflexion[k + 1] + 1 >>]

\* the (i, j) of the bends of detect_bends
BendSpans(rb_geom) == SpansOf(Inflexion(Orientation(rb_geom)))

\* the directions of the bends: the first one and then its opposite, in turn
Directions(rb_geom, first) ==
    [rb_geom EXCEPT !.bends =
        [k \in 1 .. Len(rb_geom.bends) |->
            [rb_geom.bends[k] EXCEPT !.direction =
                IF (k % 2 = 1) = (first = "IN") THEN "IN" ELSE "OUT"]]]

\* ReduceBend.set_bend_direction: the first bend goes "IN" when its centroid
\* is within the polygon of the line, the next ones alternate
set_bend_direction(rb_geom) ==
    IF rb_geom.is_closed /\ Len(rb_geom.bends) >= 1
    THEN Directions(rb_geom,
                    IF PointInRing(DoubleAll(rb_geom.qgs_geom),
                                   Centroid2(rb_geom.bends[1].qgs_geom_bend)) = "in"
                    THEN "IN" ELSE "OUT")
    ELSE rb_geom

\* a bend polygon of zero area among the bends (i, j)
SpansRaise(spans, qgs_points) ==
    \E k \in 1 .. Len(spans) :
        BendRaises(create_polygon(spans[k][1], spans[k][2], qgs_points))

\* detect_bends raises: a bend polygon of zero area
detect_bends_raises(rb_geom) == SpansRaise(BendSpans(rb_geom), rb_geom.qgs_geom)

\* the bends (i, j) of a line
BendsOf(spans, qgs_points) ==
    [k \in 1 .. Len(spans) |->
        Bend(spans[k][1], spans[k][2],
             create_polygon(spans[k][1], spans[k][2], qgs_points))]

\* the line with its new list of bends; without a bend (no inflexion) the
\* line is at its simplest form
WithBends(rb_geom, bends) ==
    IF Len(bends) # 0
    THEN set_bend_direction([rb_geom EXCEPT !.bends = bends])
    ELSE [rb_geom EXCEPT !.bends = << >>, !.is_simplest = TRUE]

\* ReduceBend.detect_bends: the line with its new list of bends (its length
\* is the number of bends detected)
detect_bends(rb_geom) ==
    WithBends(rb_geom, BendsOf(BendSpans(rb_geom), rb_geom.qgs_geom))

\* the loop of pivot_closed_line over the bends from the 0-based index k:
\* [location (a bend index or -1), area, need_pivot]
RECURSIVE PivotScan(_, _, _, _, _)
PivotScan(bends, k, location, area, min_adj_area) ==
    IF k >= Len(bends) THEN [location |-> location, need_pivot |-> TRUE]
    ELSE LET bend == At(bends, k)
             bigger == bend.area > area
             loc1 == IF bigger THEN k ELSE location
             area1 == IF bigger THEN bend.area ELSE area
         IN  IF bend.j - bend.i >= 4 /\ Area1000(bend.area) >= min_adj_area
             THEN IF bend.direction = "OUT"
                  THEN [location |-> k, need_pivot |-> FALSE]
                  ELSE PivotScan(bends, k + 1, k, area1, min_adj_area)
             ELSE PivotScan(bends, k + 1, loc1, area1, min_adj_area)

\* a pivot that does not close the line on its new start
PivotedOpen(qgs_points, new_start_end) ==
    Slice(qgs_points, new_start_end, Len(qgs_points))
        \o Slice(qgs_points, 1, new_start_end)

\* the new list of points of pivot_closed_line: the closed line from the
\* vertex new_start_end on
Pivoted(qgs_points, new_start_end) ==
    Slice(qgs_points, new_start_end, Len(qgs_points))
        \o Slice(qgs_points, 1, new_start_end + 1)

\* pivot_closed_line that moves the start/end vertex whatever need_pivot is
pivot_closed_line_always(rb_geom, diameter_tol) ==
    IF rb_geom.is_closed
    THEN LET scan == PivotScan(rb_geom.bends, 0, -1, 0,
                               calculate_min_adj_area(diameter_tol))
             g1 == [rb_geom EXCEPT !.need_pivot = @ /\ scan.need_pivot]
         IN  IF scan.location # -1
             THEN LET bend_location == At(rb_geom.bends, scan.location)
                      qgs_points == rb_geom.qgs_geom
                      new_start_end == (bend_location.j + bend_location.i) \div 2
                  IN  [g1 EXCEPT !.qgs_geom = Pivoted(qgs_points, new_start_end),
                                 !.nbr_pivot = @ + 1]
             ELSE g1
    ELSE rb_geom

\* ReduceBend.pivot_closed_line: the start/end vertex of a closed line is
\* moved to the middle of the bend chosen (nbr_pivot, not a field of the
\* source, counts the times the line was given a new start/end)
pivot_closed_line(rb_geom, diameter_tol) ==
    IF rb_geom.is_closed /\ rb_geom.need_pivot
    THEN LET scan == PivotScan(rb_geom.bends, 0, -1, 0,
                               calculate_min_adj_area(diameter_tol))
             g1 == [rb_geom EXCEPT !.need_pivot = scan.need_pivot]
         IN  IF scan.location # -1
             THEN LET bend_location == At(rb_geom.bends, scan.location)
                      qgs_points == rb_geom.qgs_geom
                      new_start_end == (bend_location.j + bend_location.i) \div 2
                  IN  [g1 EXCEPT !.qgs_geom = Pivoted(qgs_points, new_start_end),
                                 !.nbr_pivot = @ + 1]
             ELSE g1
    ELSE rb_geom

\* the loop of flag_bend_to_reduce over lst_bends (bend indices sorted by
\* adjusted area): the set of the bend indices flagged
RECURSIVE FlagScan(_, _, _, _, _)
FlagScan(bends, lst_bends, k, flagged, min_adj_area) ==
    IF k > Len(lst_bends) THEN flagged
    ELSE LET i == lst_bends[k]
             start == 0
             end == Len(bends) - 1
             to_reduce ==
                 IF Len(lst_bends) = 1 THEN TRUE
                 ELSE IF i = start THEN (i + 1) \notin flagged
                 ELSE IF i = end THEN (i - 1) \notin flagged
                 ELSE ~((i - 1) \in flagged \/ (i + 1) \in flagged)
         IN  IF At(bends, i).adj_area <= min_adj_area
             THEN FlagScan(bends, lst_bends, k + 1,
                           IF to_reduce THEN flagged \cup {i} ELSE flagged,
                           min_adj_area)
             ELSE flagged

\* flag_bend_to_reduce flagging no bend
flag_bend_to_reduce_none(rb_geom, diameter_tol) ==
    LET bends == IF rb_geom.is_closed /\ Len(rb_geom.bends) >= 3
                 THEN Slice(rb_geom.bends, 1, Len(rb_geom.bends) - 1)
                 ELSE rb_geom.bends
    IN  [rb_geom EXCEPT
            !.bends = bends,
            !.is_simplest = IF Len(bends) = 0 THEN TRUE ELSE rb_geom.is_simplest]

\* flag_bend_to_reduce keeping the first and the last bend of a closed line
flag_bend_to_reduce_keep(rb_geom, diameter_tol) ==
    LET min_adj_area == calculate_min_adj_area(diameter_tol)
        bends == rb_geom.bends
        key == [i \in Indices(bends) |-> At(bends, i).adj_area]
        lst_bends == SortIndices({i \in Indices(bends) :
                                     Area1000(At(bends, i).area) < min_adj_area}, key)
        flagged == FlagScan(bends, lst_bends, 1, {}, min_adj_area)
    IN  [rb_geom EXCEPT
            !.bends = [k \in 1 .. Len(bends) |->
                          [bends[k] EXCEPT !.to_reduce = (k - 1) \in flagged]],
            !.is_simplest = IF Len(bends) = 0 THEN TRUE ELSE rb_geom.is_simplest]

\* flag_bend_to_reduce flagging the bend of smallest adjusted area only
flag_bend_to_reduce_first(rb_geom, diameter_tol) ==
    LET min_adj_area == calculate_min_adj_area(diameter_tol)
        bends == IF rb_geom.is_closed /\ Len(rb_geom.bends) >= 3
                 THEN Slice(rb_geom.bends, 1, Len(rb_geom.bends) - 1)
                 ELSE rb_geom.bends
        key == [i \in Indices(bends) |-> At(bends, i).adj_area]
        lst_bends == SortIndices({i \in Indices(bends) :
                                     Area1000(At(bends, i).area) < min_adj_area}, key)
    IN  [rb_geom EXCEPT
            !.bends = [k \in 1 .. Len(bends) |->
                          [bends[k] EXCEPT
                              !.to_reduce = /\ Len(lst_bends) >= 1
                                            /\ k - 1 = lst_bends[1]
                                            /\ bends[k].adj_area <= min_adj_area]],
            !.is_simplest = IF Len(bends) = 0 THEN TRUE ELSE rb_geom.is_simplest]

\* flag_bend_to_reduce flagging every bend under the minimum adjusted area,
\* whatever its neighbours
flag_bend_to_reduce_all(rb_geom, diameter_tol) ==
    LET min_adj_area == calculate_min_adj_area(diameter_tol)
        bends == IF rb_geom.is_closed /\ Len(rb_geom.bends) >= 3
                 THEN Slice(rb_geom.bends, 1, Len(rb_geom.bends) - 1)
                 ELSE rb_geom.bends
    IN  [rb_geom EXCEPT
            !.bends = [k \in 1 .. Len(bends) |->
                          [bends[k] EXCEPT
                              !.to_reduce = /\ Area1000(bends[k].area) < min_adj_area
                                            /\ bends[k].adj_area <= min_adj_area]],
            !.is_simplest = IF Len(bends) = 0 THEN TRUE ELSE rb_geom.is_simplest]

\* ReduceBend.flag_bend_to_reduce
flag_bend_to_reduce(rb_geom, diameter_tol) ==
    LET min_adj_area == calculate_min_adj_area(diameter_tol)
        bends == IF rb_geom.is_closed /\ Len(rb_geom.bends) >= 3
                 THEN Slice(rb_geom.bends, 1, Len(rb_geom.bends) - 1)
                 ELSE rb_geom.bends
        key == [i \in Indices(bends) |-> At(bends, i).adj_area]
        lst_bends == SortIndices({i \in Indices(bends) :
                                     Area1000(At(bends, i).area) < min_adj_area}, key)
        flagged == FlagScan(bends, lst_bends, 1, {}, min_adj_area)
    IN  [rb_geom EXCEPT
            !.bends = [k \in 1 .. Len(bends) |->
                          [bends[k] EXCEPT !.to_reduce = (k - 1) \in flagged]],
            !.is_simplest = IF Len(bends) = 0 THEN TRUE ELSE rb_geom.is_simplest]

(***************************************************************************)
(* RbCollection: the spatial index.  An entry is [id, geom, origin]: geom  *)
(* is <<p0, p1>> for a line segment and <<p>> for a point, origin is the   *)
(* id of the RbGeom recorded in _dict_qgs_segment.  A collection is        *)
(* [spatial_index, id_qgs_segment, raised]; raised is set once an          *)
(* exception left one of its methods.                                      *)
(***************************************************************************)
RbCollection == [spatial_index |-> {}, id_qgs_segment |-> 0, raised |-> FALSE]

\* _create_feature_segment followed by addFeature
AddSegment(col, origin_id, geom) ==
    [col EXCEPT !.id_qgs_segment = col.id_qgs_segment + 1,
                !.spatial_index = col.spatial_index \cup
                    {[id |-> col.id_qgs_segment + 1, geom |-> geom,
                      origin |-> origin_id]}]

RECURSIVE AddSegments(_, _, _)
AddSegments(col, origin_id, geoms) ==
    IF geoms = << >> THEN col
    ELSE AddSegments(AddSegment(col, origin_id, geoms[1]), origin_id, Tail(geoms))

\* RbCollection.add_features
RECURSIVE add_features(_, _)
add_features(col, rb_geoms) ==
    IF rb_geoms = << >> THEN col
    ELSE LET rb_geom == rb_geoms[1]
             geoms == IF rb_geom.original_geom_type = "Point"
                      THEN << rb_geom.qgs_geom >>
                      ELSE Segments(rb_geom.qgs_geom)
         IN  add_features(AddSegments(col, rb_geom.id, geoms), Tail(rb_geoms))

\* bounding boxes <<xmin, ymin, xmax, ymax>>
BBox(pts) ==
    LET xs == {pts[k][1] : k \in 1 .. Len(pts)}
        ys == {pts[k][2] : k \in 1 .. Len(pts)}
    IN  << CHOOSE x \in xs : \A z \in xs : x <= z,
           CHOOSE y \in ys : \A z \in ys : y <= z,
           CHOOSE x \in xs : \A z \in xs : x >= z,
           CHOOSE y \in ys : \A z \in ys : y >= z >>

BoxesIntersect(r, q) ==
    r[1] <= q[3] /\ q[1] <= r[3] /\ r[2] <= q[4] /\ q[2] <= r[4]

\* QgsSpatialIndex.intersects: the entries whose bounding box meets the box
Intersects(col, qgs_rectangle) ==
    {e \in col.spatial_index : BoxesIntersect(BBox(e.geom), qgs_rectangle)}

\* _delete_segment returning normally when no entry matches
delete_segment_quiet(col, qgs_pnt0, qgs_pnt1) ==
    LET found == {e \in col.spatial_index :
                     Len(e.geom) = 2 /\ e.geom[1] = qgs_pnt0 /\ e.geom[2] = qgs_pnt1}
    IN  IF col.raised \/ found = {} THEN {col}
        ELSE {[col EXCEPT !.spatial_index = col.spatial_index \ {e}] : e \in found}

\* RbCollection._delete_segment: the collections that can result.  The
\* entries around the middle of the segment come in the order of the index;
\* the first one with the same start and end point is deleted, whatever its
\* origin.  Without one the method raises.
delete_segment(col, qgs_pnt0, qgs_pnt1) ==
    LET found == {e \in col.spatial_index :
                     Len(e.geom) = 2 /\ e.geom[1] = qgs_pnt0 /\ e.geom[2] = qgs_pnt1}
    IN  IF col.raised THEN {col}
        ELSE IF found = {} THEN {[col EXCEPT !.raised = TRUE]}
        ELSE {[col EXCEPT !.spatial_index = col.spatial_index \ {e}] : e \in found}

RECURSIVE delete_segments(_, _)
delete_segments(cols, segments) ==
    IF segments = << >> THEN cols
    ELSE delete_segments(
             UNION {delete_segment(c, segments[1][1], segments[1][2]) : c \in cols},
             Tail(segments))

\* delete_vertex without the segment that closes the gap entering the index
delete_vertex_gap(col, rb_geom, v_id_start, v_id_end) ==
    LET pts == rb_geom.qgs_geom
        old == Segments(Slice(pts, v_id_start - 1, v_id_end + 2))
    IN  {IF c.raised THEN [col |-> c, qgs_geom |-> pts]
         ELSE [col |-> c, qgs_geom |-> DeleteRange(pts, v_id_start, v_id_end)] :
         c \in delete_segments({col}, old)}

\* delete_vertex with the vertices staying in the line
delete_vertex_kept(col, rb_geom, v_id_start, v_id_end) ==
    LET pts == rb_geom.qgs_geom
        old == Segments(Slice(pts, v_id_start - 1, v_id_end + 2))
        new == << At(pts, v_id_start - 1), At(pts, v_id_end + 1) >>
    IN  {IF c.raised THEN [col |-> c, qgs_geom |-> pts]
         ELSE [col |-> AddSegment(c, rb_geom.id, new), qgs_geom |-> pts] :
         c \in delete_segments({col}, old)}

\* RbCollection.delete_vertex: the vertices v_id_start .. v_id_end leave the
\* line, their segments leave the index and one segment enters it.  The
\* results are [col, qgs_geom]; after a raise the line is as it was.
delete_vertex(col, rb_geom, v_id_start, v_id_end) ==
    LET pts == rb_geom.qgs_geom
        old == Segments(Slice(pts, v_id_start - 1, v_id_end + 2))
        new == << At(pts, v_id_start - 1), At(pts, v_id_end + 1) >>
    IN  {IF c.raised THEN [col |-> c, qgs_geom |-> pts]
         ELSE [col |-> AddSegment(c, rb_geom.id, new),
               qgs_geom |-> DeleteRange(pts, v_id_start, v_id_end)] :
         c \in delete_segments({col}, old)}

\* add_vertex putting the whole new sub line, its two ends included, in the line
add_vertex_whole(col, rb_geom, bend_i, bend_j, new_subline) ==
    LET pts == rb_geom.qgs_geom
    IN  {IF c.raised THEN [col |-> c, qgs_geom |-> pts]
         ELSE [col |-> AddSegments(c, rb_geom.id, Segments(new_subline)),
               qgs_geom |-> Slice(pts, 0, bend_j) \o new_subline
                               \o Slice(pts, bend_j, Len(pts))] :
         c \in delete_segment(col, At(pts, bend_i), At(pts, bend_j))}

\* RbCollection.add_vertex: the segment bend_i - bend_j is replaced by the
\* segments of the new sub line, whose inner vertices enter the line
add_vertex(col, rb_geom, bend_i, bend_j, new_subline) ==
    LET pts == rb_geom.qgs_geom
    IN  {IF c.raised THEN [col |-> c, qgs_geom |-> pts]
         ELSE [col |-> AddSegments(c, rb_geom.id, Segments(new_subline)),
               qgs_geom |-> Slice(pts, 0, bend_j)
                               \o Slice(new_subline, 1, Len(new_subline) - 1)
                               \o Slice(pts, bend_j, Len(pts))] :
         c \in delete_segment(col, At(pts, bend_i), At(pts, bend_j))}

\* RbCollection.get_segment_intersect: the geometries of the entries met by
\* the box, those of the line qgs_geom_id and the others (points included)
get_segment_intersect(col, qgs_geom_id, qgs_rectangle) ==
    LET hits == Intersects(col, qgs_rectangle)
    IN  [itself |-> {e.geom : e \in {h \in hits :
                                        Len(h.geom) = 2 /\ h.origin = qgs_geom_id}},
         others |-> {e.geom : e \in {h \in hits :
                                        Len(h.geom) = 2 /\ h.origin # qgs_geom_id}},
         points |-> {e.geom : e \in {h \in hits : Len(h.geom) = 1}}]

(***************************************************************************)
(* Spatial predicates of the geometry library on the geometries returned   *)
(* by get_segment_intersect.                                               *)
(***************************************************************************)
\* number of segment ends of the set at the point
Degree(segments, p) ==
    Cardinality({g \in segments : g[1] = p}) + Cardinality({g \in segments : g[2] = p})

\* _merge_lines: two segments are merged when they meet at a point where
\* exactly two segment ends meet
Merged(segments, g, h) ==
    /\ g # h
    /\ \E p \in {g[1], g[2]} \cap {h[1], h[2]} : Degree(segments, p) = 2

RECURSIVE MergedLine(_, _)
MergedLine(segments, part) ==
    LET more == part \cup {h \in segments : \E g \in part : Merged(segments, g, h)}
    IN  IF more = part THEN part ELSE MergedLine(segments, more)

\* the merged lines of a set of segments, each as the set of its segments
merge_lines(segments) == {MergedLine(segments, {g}) : g \in segments}

\* the closed segment g lies in the closed ring
SegmentInRing(ring, g) ==
    LET ring2 == DoubleAll(ring)
    IN  /\ PointInRing(ring2, Double(g[1])) # "out"
        /\ PointInRing(ring2, Double(g[2])) # "out"
        /\ PointInRing(ring2, << g[1][1] + g[2][1], g[1][2] + g[2][2] >>) # "out"
        /\ \A k \in 1 .. (Len(ring) - 1) :
              ~(/\ Sign(Cross(ring[k], ring[k + 1], g[1]))
                     * Sign(Cross(ring[k], ring[k + 1], g[2])) < 0
                /\ Sign(Cross(g[1], g[2], ring[k]))
                     * Sign(Cross(g[1], g[2], ring[k + 1])) < 0)

\* a point of the segment g lies inside the ring
SegmentMeetsInside(ring, g) ==
    LET ring2 == DoubleAll(ring)
    IN  \/ PointInRing(ring2, Double(g[1])) = "in"
        \/ PointInRing(ring2, Double(g[2])) = "in"
        \/ PointInRing(ring2, << g[1][1] + g[2][1], g[1][2] + g[2][2] >>) = "in"

\* QgsGeometry.contains of a bend polygon and a merged line
ContainsLine(ring, line) ==
    /\ \A g \in line : SegmentInRing(ring, g)
    /\ \E g \in line : SegmentMeetsInside(ring, g)

\* QgsGeometry.contains of a bend polygon and a point
ContainsPoint(ring, geom) == PointInRing(ring, geom[1]) = "in"

\* QgsGeometry.disjoint of a sub line (a, b) and a segment or a point
Disjoint(a, b, geom) ==
    IF Len(geom) = 1 THEN ~OnSegment(a, b, geom[1])
    ELSE ~SegmentsIntersect(a, b, geom[1], geom[2])

(***************************************************************************)
(* Validation of the spatial constraints and reduction of the bends.       *)
(***************************************************************************)
\* the (i, j) of find_alternate_bends in the order they are created
RECURSIVE AlternateSpans(_, _)
AlternateSpans(bend_i, j) ==
    IF j - 1 >= 2
    THEN (IF j - bend_i >= 2
          THEN [k \in 1 .. (j - 1 - bend_i) |-> << bend_i + k - 1, j >>]
          ELSE << >>)
             \o AlternateSpans(bend_i, j - 1)
    ELSE << >>

\* find_alternate_bends raises: an alternate bend polygon of zero area
find_alternate_bends_raises(ind, rb_geom) ==
    SpansRaise(AlternateSpans(At(rb_geom.bends, ind).i, At(rb_geom.bends, ind).j),
               rb_geom.qgs_geom)

\* a list of bends from the biggest polygon area to the smallest
BiggestFirst(bends) ==
    [k \in 1 .. Len(bends) |->
        At(bends, SortIndices(Indices(bends),
                              [m \in Indices(bends) |-> -At(bends, m).area])[k])]

\* ReduceBend.find_alternate_bends: the alternate bends from the biggest
\* polygon area to the smallest
find_alternate_bends(ind, rb_geom) ==
    BiggestFirst(BendsOf(AlternateSpans(At(rb_geom.bends, ind).i,
                                        At(rb_geom.bends, ind).j),
                         rb_geom.qgs_geom))

\* the trimmed sub line of a bend is disjoint from the segments of the line
\* itself (get_new_subline_trimmed, then the loop on qgs_geoms_with_itself)
TrimmedSublineOk(rb_geom, bend, itself) ==
    \A g \in itself :
        ~TrimmedIntersects(At(rb_geom.qgs_geom, bend.i), At(rb_geom.qgs_geom, bend.j),
                           g[1], g[2])

\* the index of the first alternate bend with a safe trimmed sub line, or 0
FirstSafe(safe) ==
    IF safe = {} THEN 0 ELSE CHOOSE k \in safe : \A m \in safe : k <= m

FirstSafeAlternate(rb_geom, alternate_bends, itself) ==
    FirstSafe({k \in 1 .. Len(alternate_bends) :
                  TrimmedSublineOk(rb_geom, alternate_bends[k], itself)})

\* the new sub line of a bend has no length
NoSubline(rb_geom, bend) ==
    At(rb_geom.qgs_geom, bend.i) = At(rb_geom.qgs_geom, bend.j)

\* validate_spatial_constraints raises: in find_alternate_bends
ValidateBendRaises(col, ind, rb_geom, bend) ==
    /\ ~NoSubline(rb_geom, bend)
    /\ ~TrimmedSublineOk(rb_geom, bend,
            get_segment_intersect(col, rb_geom.id, BBox(bend.qgs_geom_bend)).itself)
    /\ find_alternate_bends_raises(ind, rb_geom)

validate_spatial_constraints_raises(col, ind, rb_geom) ==
    ValidateBendRaises(col, ind, rb_geom, At(rb_geom.bends, ind))

\* first check of validate_spatial_constraints, the loop over the alternate
\* bends: the first safe one (alt, 0 without one) resets the bend ind
AlternateChecked(ind, rb_geom, alternate_bends, alt) ==
    [check_constraints |-> alt # 0,
     rb_geom |-> IF alt # 0
                 THEN [rb_geom EXCEPT !.bends[ind + 1] = alternate_bends[alt]]
                 ELSE rb_geom]

AlternatesChecked(ind, rb_geom, alternate_bends, itself) ==
    AlternateChecked(ind, rb_geom, alternate_bends,
                     FirstSafeAlternate(rb_geom, alternate_bends, itself))

\* first check of validate_spatial_constraints: [check_constraints, rb_geom]
SimpleChecked(ind, rb_geom, bend, itself) ==
    IF NoSubline(rb_geom, bend) \/ TrimmedSublineOk(rb_geom, bend, itself)
    THEN [check_constraints |-> TRUE, rb_geom |-> rb_geom]
    ELSE AlternatesChecked(ind, rb_geom, find_alternate_bends(ind, rb_geom), itself)

\* second and third check of validate_spatial_constraints, on the sub line
\* (a, b) and the polygon of the bend the method was called for
OthersChecked(a, b, qgs_geom_bend, near) ==
    /\ \A g \in near.others : Disjoint(a, b, g)
    /\ \A g \in near.points : Disjoint(a, b, g)
    /\ \A line \in merge_lines(near.others) : ~ContainsLine(qgs_geom_bend, line)
    /\ \A g \in near.points : ~ContainsPoint(qgs_geom_bend, g)

AllChecked(first, others) ==
    [check_constraints |-> first.check_constraints /\ others, rb_geom |-> first.rb_geom]

ValidateNear(ind, rb_geom, bend, near) ==
    AllChecked(SimpleChecked(ind, rb_geom, bend, near.itself),
               OthersChecked(At(rb_geom.qgs_geom, bend.i), At(rb_geom.qgs_geom, bend.j),
                             bend.qgs_geom_bend, near))

ValidateBend(col, ind, rb_geom, bend) ==
    ValidateNear(ind, rb_geom, bend,
                 get_segment_intersect(col, rb_geom.id, BBox(bend.qgs_geom_bend)))

\* ReduceBend.validate_spatial_constraints:
\* [check_constraints, rb_geom (its bend ind may be reset to an alternate)]
validate_spatial_constraints(col, ind, rb_geom) ==
    ValidateBend(col, ind, rb_geom, At(rb_geom.bends, ind))

(***************************************************************************)
(* Creation of the bends of one line.  The methods that edit the index     *)
(* give the set of their possible results [col, rb_geom]; col.raised tells *)
(* that an exception left the method.                                      *)
(***************************************************************************)
\* delete_vertex on every result so far
DeleteVertexIn(outs, v_id) ==
    UNION {IF o.col.raised THEN {o}
           ELSE {[col |-> r.col, rb_geom |-> [o.rb_geom EXCEPT !.qgs_geom = r.qgs_geom]] :
                 r \in delete_vertex(o.col, o.rb_geom, v_id, v_id)} :
           o \in outs}

RECURSIVE DeleteVertices(_, _)
DeleteVertices(outs, v_ids) ==
    IF v_ids = << >> THEN outs
    ELSE DeleteVertices(DeleteVertexIn(outs, v_ids[1]), Tail(v_ids))

\* the vertex_ids_to_del of delete_co_linear, in increasing order
CoLinearVertices(rb_geom) ==
    LET all == get_angles(rb_geom)
        angles == IF rb_geom.is_closed /\ Len(all) >= 1 THEN Tail(all) ELSE all
    IN  SortedSeq({i + 1 : i \in {k \in Indices(angles) : AngleIsFlat(At(angles, k))}})

\* ReduceBend.delete_co_linear
delete_co_linear(col, rb_geom) ==
    {IF o.col.raised THEN o
     ELSE [o EXCEPT !.rb_geom.is_simplest =
              IF PathLength100(o.rb_geom.qgs_geom) = 0 THEN TRUE
              ELSE o.rb_geom.is_simplest] :
     o \in DeleteVertices({[col |-> col, rb_geom |-> rb_geom]},
                          Reverse(CoLinearVertices(rb_geom)))}

\* detect_bends on a result; a raise is kept in col.raised
DetectIn(o) ==
    IF o.col.raised THEN o
    ELSE IF detect_bends_raises(o.rb_geom) THEN [o EXCEPT !.col.raised = TRUE]
    ELSE [o EXCEPT !.rb_geom = detect_bends(o.rb_geom)]

\* the pivot, the second delete_co_linear and the second detect_bends of
\* manage_bend_creation on a result
PivotIn(o, nbr_pass, diameter_tol) ==
    IF o.col.raised \/ ~o.rb_geom.is_closed THEN {o}
    ELSE IF nbr_pass >= min_nbr_pass \/ Len(o.rb_geom.bends) < 10
    THEN {DetectIn(q) : q \in delete_co_linear(o.col,
                                  pivot_closed_line(o.rb_geom, diameter_tol))}
    ELSE {o}

\* ReduceBend.manage_bend_creation (Len(rb_geom.bends) of a result is the
\* number of bends detected)
manage_bend_creation(col, nbr_pass, rb_geom, diameter_tol) ==
    UNION {PivotIn(DetectIn(o), nbr_pass, diameter_tol) :
           o \in delete_co_linear(col, rb_geom)}

(***************************************************************************)
(* BendReduced and the smoothing of a reduced bend.                        *)
(***************************************************************************)
\* BendReduced.__init__
BendReduced(rb_geom, qgs_point_start, qgs_point_end, qgs_geom_bend) ==
    [rb_geom |-> rb_geom.id, qgs_point_start |-> qgs_point_start,
     qgs_point_end |-> qgs_point_end, qgs_geom_bend |-> qgs_geom_bend]

\* extract_vertex_ind of set_values: closestVertex gives the last of the
\* closest vertices; None is -1
extract_vertex_ind(qgs_line_string, qgs_point) ==
    LET same == {k \in Indices(qgs_line_string) : At(qgs_line_string, k) = qgs_point}
    IN  IF same = {} THEN -1 ELSE CHOOSE k \in same : \A m \in same : m <= k

\* set_values without the test of the length of the base of the bend
set_values_short(bend_reduced, qgs_line_string, diameter) ==
    LET i == extract_vertex_ind(qgs_line_string, bend_reduced.qgs_point_start)
        j == extract_vertex_ind(qgs_line_string, bend_reduced.qgs_point_end)
    IN  [i |-> i, j |-> j,
         is_line_smoothable |->
             /\ i # -1 /\ j # -1 /\ i + 1 = j
             /\ i >= 1 /\ j <= Len(qgs_line_string) - 2]

\* BendReduced.set_values: [i, j, is_line_smoothable]
set_values(bend_reduced, qgs_line_string, diameter) ==
    LET i == extract_vertex_ind(qgs_line_string, bend_reduced.qgs_point_start)
        j == extract_vertex_ind(qgs_line_string, bend_reduced.qgs_point_end)
        long == 9 * Dist2(bend_reduced.qgs_point_start, bend_reduced.qgs_point_end)
                    > 4 * diameter * diameter
    IN  [i |-> i, j |-> j,
         is_line_smoothable |->
             /\ long /\ i # -1 /\ j # -1 /\ i + 1 = j
             /\ i >= 1 /\ j <= Len(qgs_line_string) - 2]

\* 1000 * tan of 1 .. 50 degrees
Tan1000 ==
    << 17, 35, 52, 70, 87, 105, 123, 141, 158, 176, 194, 213, 231, 249, 268,
       287, 306, 325, 344, 364, 384, 404, 424, 445, 466, 488, 510, 532, 554,
       577, 601, 625, 649, 675, 700, 727, 754, 781, 810, 839, 869, 900, 933,
       966, 1000, 1036, 1072, 1111, 1150, 1192 >>

\* pi minus the angle at p2 folded to [0, pi], in whole degrees up to 50
TurnDegrees(p1, p2, p3) ==
    LET a == angleBetweenThreePoints(p1, p2, p3)
    IN  IF a.c >= 0 THEN 50
        ELSE Cardinality({k \in 1 .. 50 : Tan1000[k] * (-a.c) <= 1000 * Abs(a.s)})

\* the cases of bend to smooth: y0, y3 and yc are the signs of the y in the
\* rotated frame of the vertex before the bend, of the vertex after it and
\* of the centroid of the bend
SmoothCase(y0, y3, yc) ==
    IF y0 * y3 > 0
    THEN IF y0 * yc < 0 THEN "Case1" ELSE "Case2"
    ELSE "Case3"

\* angle_smooth in whole degrees, from pi - max(angle_i, angle_j) in degrees
AngleSmooth(smooth_case, turn) ==
    IF smooth_case = "Case1" THEN Min2((2 * turn) \div 3, 30)
    ELSE IF smooth_case = "Case2" THEN Min2((2 * turn) \div 5, 20)
    ELSE Min2((2 * turn) \div 3, 20)

\* 1000 * tan(angle_smooth)
TanSmooth(angle) == IF angle = 0 THEN 0 ELSE Tan1000[angle]

\* the vertex at third / 3 of the base from p, moved by side * tan / 3 of
\* the base across it, rounded to the grid
SmoothPoint(p, base, third, side, tan) ==
    << p[1] + RoundDiv(third * 1000 * base[1] - side * tan * base[2], 3000),
       p[2] + RoundDiv(third * 1000 * base[2] + side * tan * base[1], 3000) >>

\* the smooth sub line of the base (p, q) with 1000 * tan(angle_smooth)
SmoothLine(p, q, smooth_case, y0, tan) ==
    << p,
       SmoothPoint(p, Sub(q, p), 1, IF y0 > 0 THEN -1 ELSE 1, tan),
       SmoothPoint(p, Sub(q, p), 2,
                   IF (y0 > 0) = (smooth_case # "Case3") THEN -1 ELSE 1, tan),
       q >>

SmoothCased(prev, p, q, next, smooth_case, y0) ==
    SmoothLine(p, q, smooth_case, y0,
               TanSmooth(AngleSmooth(smooth_case,
                                     Min2(TurnDegrees(prev, p, q),
                                          TurnDegrees(p, q, next)))))

SmoothSided(prev, p, q, next, y0, y3, yc) ==
    SmoothCased(prev, p, q, next, SmoothCase(y0, y3, yc), y0)

\* side of the base (p, q) a point is on: the sign of its y once the base
\* is rotated onto the x axis
SideOf(p, q, r) == Sign(CrossV(Sub(q, p), Sub(r, p)))

SmoothSubLine(prev, p, q, next, centroid2) ==
    SmoothSided(prev, p, q, next, SideOf(p, q, prev), SideOf(p, q, next),
                SideOf(Double(p), Double(q), centroid2))

\* BendReduced.calculate_smooth_line: the sub line of 4 vertices; the two
\* new vertices are rounded to the grid
calculate_smooth_line(bend_reduced, qgs_line_string, i, j) ==
    SmoothSubLine(At(qgs_line_string, i - 1), At(qgs_line_string, i),
                  At(qgs_line_string, j), At(qgs_line_string, j + 1),
                  Centroid2(bend_reduced.qgs_geom_bend))

(***************************************************************************)
(* The features of a run.  An input feature is [type, geom]: geom is <<p>> *)
(* for a Point, the vertices for a LineString and the list of the rings    *)
(* (outer ring first) for a Polygon.  An RbFeature is [type, rb_geom] with *)
(* the list of its RbGeom.                                                 *)
(***************************************************************************)
\* the parts of an input feature that become RbGeom
Parts(qgs_feature) ==
    IF qgs_feature.type = "Polygon" THEN qgs_feature.geom ELSE << qgs_feature.geom >>

\* RbPolygon.__init__, RbLineString.__init__, RbPoint.__init__: next_id is
\* the id given to the first RbGeom
RbFeature(qgs_feature, next_id) ==
    [type |-> qgs_feature.type,
     rb_geom |-> [k \in 1 .. Len(Parts(qgs_feature)) |->
                     RbGeom(next_id + k - 1, Parts(qgs_feature)[k], qgs_feature.type)]]

\* ReduceBend.create_rb_feature
RECURSIVE create_rb_feature(_, _)
create_rb_feature(qgs_features, next_id) ==
    IF qgs_features = << >> THEN << >>
    ELSE << RbFeature(qgs_features[1], next_id) >>
             \o create_rb_feature(Tail(qgs_features),
                                  next_id + Len(Parts(qgs_features[1])))

\* extract_polygon_attributes and calculate_adj_area of a ring
RingAdjArea(rb_geom) ==
    calculate_adj_area(Area2(rb_geom.qgs_geom), PathLength100(rb_geom.qgs_geom))

\* the rings of a polygon that del_outer_inner_ring keeps; << >> when the
\* polygon is deleted
KeptRings(rb_feature, diameter_tol, flag_del_outer, flag_del_inner) ==
    LET rings == rb_feature.rb_geom
        small(k) == RingAdjArea(rings[k]) < calculate_min_adj_area(diameter_tol)
        keep == {k \in 1 .. Len(rings) : k = 1 \/ ~(flag_del_inner /\ small(k))}
    IN  IF flag_del_outer /\ small(1) THEN << >>
        ELSE [k \in 1 .. Cardinality(keep) |-> rings[SortedSeq(keep)[k]]]

\* the holes of a polygon that del_outer_inner_ring deletes
HolesDeleted(rb_feature, diameter_tol, flag_del_inner) ==
    Cardinality({k \in 2 .. Len(rb_feature.rb_geom) :
                    flag_del_inner /\ RingAdjArea(rb_feature.rb_geom[k])
                                          < calculate_min_adj_area(diameter_tol)})

\* ReduceBend.del_outer_inner_ring raises ZeroDivisionError: a ring of zero
\* area or perimeter
del_outer_inner_ring_raises(rb_features) ==
    \E f \in 1 .. Len(rb_features) :
        /\ rb_features[f].type = "Polygon"
        /\ \E k \in 1 .. Len(rb_features[f].rb_geom) :
               BendRaises(rb_features[f].rb_geom[k].qgs_geom)

\* ReduceBend.del_outer_inner_ring: [rb_features, nbr_pol_del, nbr_hole_del]
del_outer_inner_ring(rb_features, diameter_tol, flag_del_outer, flag_del_inner) ==
    LET pols == {f \in 1 .. Len(rb_features) : rb_features[f].type = "Polygon"}
        kept(f) == KeptRings(rb_features[f], diameter_tol, flag_del_outer, flag_del_inner)
        gone == {f \in pols : kept(f) = << >>}
        stay == SortedSeq((1 .. Len(rb_features)) \ gone)
    IN  [rb_features |->
             [k \in 1 .. Len(stay) |->
                 IF stay[k] \in pols
                 THEN [rb_features[stay[k]] EXCEPT !.rb_geom = kept(stay[k])]
                 ELSE rb_features[stay[k]]],
         nbr_pol_del |-> Cardinality(gone),
         nbr_hole_del |->
             SumSeq([f \in 1 .. Len(rb_features) |->
                        IF f \in pols
                        THEN HolesDeleted(rb_features[f], diameter_tol, flag_del_inner)
                        ELSE 0])]

\* the list of the RbGeom of the features
RECURSIVE get_rb_geoms(_)
get_rb_geoms(rb_features) ==
    IF rb_features = << >> THEN << >>
    ELSE rb_features[1].rb_geom \o get_rb_geoms(Tail(rb_features))

\* ReduceBend.pre_reduction_process after del_outer_inner_ring: the list of
\* the RbGeom, the lines without their duplicate nodes
pre_reduction_process(rb_features) ==
    LET rb_geoms == get_rb_geoms(rb_features)
    IN  [k \in 1 .. Len(rb_geoms) |->
            IF rb_geoms[k].original_geom_type # "Point" /\ ~rb_geoms[k].is_simplest
            THEN [rb_geoms[k] EXCEPT !.qgs_geom = removeDuplicateNodes(@)]
            ELSE rb_geoms[k]]

\* RbResults.__init__; a line of lines_log_info is
\* [nbr_pass, nbr_bend_detected, nbr_bend_reduced]
RbResults ==
    [nbr_bend_reduced |-> 0, nbr_bend_detected |-> 0, nbr_hole_del |-> 0,
     nbr_pol_del |-> 0, nbr_pass |-> 0, nbr_line_smooth |-> 0,
     lines_log_info |-> << >>]

(***************************************************************************)
(* The run of ReduceBend.reduce_bends as a state machine.                  *)
(***************************************************************************)
VARIABLES
    qgs_in_features,    \* the input features of the run
    diameter_tol,       \* the diameter tolerance
    smooth_line,        \* smooth the reduced bends at the end
    flag_del_outer,     \* delete the small polygons
    flag_del_inner,     \* delete the small holes
    rb_features,        \* [type, rb_geom]: rb_geom lists the ids of the RbGeom
    rb_geoms,           \* the list of the RbGeom
    rb_collection,      \* the spatial index
    rb_results,         \* the statistics
    bends_reduced,      \* the BendReduced of the run
    nbr_bend_reduced,   \* bends reduced in the pass (local of _manage_reduce_bend)
    nbr_bend_detected,  \* bends detected in the pass (local of _manage_reduce_bend)
    pc,                 \* "load", "for", "break", "flag", "process", "smooth", "done", "error"
    cur,                \* position of the for loop in rb_geoms
    ind,                \* position in rb_geom.bends or in bends_reduced
    run,                \* 1 for the first run, 2 for a run on its output
    reduced_in_pass,    \* history: [rb_geom, ind, i, j, chord, canceled] of the bends
                        \* reduced in the pass
    canceled,           \* feedback.isCanceled()
    canceled_at         \* history: the passes logged when the signal was raised, -1 before

vars ==
    << qgs_in_features, diameter_tol, smooth_line, flag_del_outer, flag_del_inner,
       rb_features, rb_geoms, rb_collection, rb_results, bends_reduced,
       nbr_bend_reduced, nbr_bend_detected, pc, cur, ind, run, reduced_in_pass,
       canceled, canceled_at >>

params ==
    << qgs_in_features, diameter_tol, smooth_line, flag_del_outer, flag_del_inner, run,
       canceled, canceled_at >>

\* the lines y(x) on the grid of step 10 with 2 .. MaxLen vertices
PathsOfLen(n) ==
    {[k \in 1 .. n |-> << 10 * (k - 1), 10 * y[k] >>] : y \in [1 .. n -> 0 .. MaxY]}

FamilyPaths == UNION {PathsOfLen(n) : n \in 2 .. MaxLen}

LineString(pts) == [type |-> "LineString", geom |-> pts]

Point(p) == [type |-> "Point", geom |-> << p >>]

Polygon(rings) == [type |-> "Polygon", geom |-> rings]

\* a bend between two rising ends: once reduced, its base can be smoothed
Valley == << << 0, 30 >>, << 30, 10 >>, << 40, 20 >>, << 50, 10 >>, << 70, 30 >> >>

\* the same line going on around the bend and ending just under its base
ValleyTail == Valley \o << << 60, 0 >>, << 40, 0 >>, << 40, 9 >> >>

\* a short line just under the base of the bend of Valley
Under == << << 40, 9 >>, << 40, 0 >> >>

\* a bend between a rising and a falling end
Slope == << << 0, 0 >>, << 30, 10 >>, << 40, 20 >>, << 50, 10 >>, << 70, 30 >> >>

\* a line with a flat top, and a line that is the flat top
Table == << << 0, 0 >>, << 10, 10 >>, << 20, 10 >>, << 30, 0 >> >>

Top == << << 10, 10 >>, << 20, 10 >> >>

\* a wide bend between two gently rising ends
Ramp == << << 0, 0 >>, << 30, 15 >>, << 45, 25 >>, << 60, 15 >>, << 80, 20 >> >>

\* a line that crosses itself
Crossed == << << 0, 0 >>, << 10, 10 >>, << 10, 0 >>, << 0, 10 >>, << 10, 20 >> >>

\* a square with a notch in its upper side
Notched == << << 0, 0 >>, << 40, 0 >>, << 40, 40 >>, << 30, 40 >>, << 20, 30 >>,
              << 10, 40 >>, << 0, 40 >>, << 0, 0 >> >>

\* a small triangular hole
Hole == << << 5, 5 >>, << 10, 15 >>, << 15, 5 >>, << 5, 5 >> >>

\* a line that winds in on itself: the sub line of its one bend crosses it
Spiral == << << 0, 0 >>, << 8, 0 >>, << 8, 6 >>, << 2, 6 >>, << 2, 2 >>, << 6, 2 >>,
             << 6, 4 >> >>

\* a short line beside the start of Spiral, across the way from the start
\* to the fourth vertex of Spiral
Fence == << << 0, 4 >>, << 1, 2 >> >>

\* a square with a dent too big to be reduced, from one of its corners and
\* from the vertex of the dent
Dented == << << 0, 0 >>, << 40, 0 >>, << 40, 40 >>, << 20, 20 >>, << 0, 40 >>,
             << 0, 0 >> >>

DentFirst == << << 20, 20 >>, << 0, 40 >>, << 0, 0 >>, << 40, 0 >>, << 40, 40 >>,
                << 20, 20 >> >>

\* a rectangle with a wide bay of three vertices in its top side
Bay == << << 0, 0 >>, << 60, 0 >>, << 60, 40 >>, << 50, 40 >>, << 40, 20 >>,
          << 30, 15 >>, << 20, 20 >>, << 10, 40 >>, << 0, 40 >>, << 0, 0 >> >>

\* a dart: a ring of four positions, thin enough to be one small bend, whose
\* only concave vertex is the third
Dart == << << 10, 10 >>, << 0, 0 >>, << 10, 8 >>, << 20, 0 >>, << 10, 10 >> >>

\* a zig-zag around the line y = 10, deeper in its middle
Wave == << << 0, 10 >>, << 10, 11 >>, << 20, 0 >>, << 30, 11 >>, << 40, 10 >> >>

\* a line of zero length
Still == << << 0, 0 >>, << 0, 0 >> >>

\* a closed ring of zero area
Flat == << << 0, 0 >>, << 20, 0 >>, << 0, 0 >> >>

Scenes ==
    { << LineString(Valley) >>,
      << LineString(Valley), LineString(Under) >>,
      << LineString(Valley), Point(<< 40, 13 >>) >>,
      << LineString(ValleyTail) >>,
      << LineString(Slope) >>,
      << LineString(Ramp) >>,
      << LineString(Table), LineString(Top) >>,
      << LineString(Top), LineString(Table) >>,
      << LineString(Crossed) >>,
      << LineString(Notched) >>,
      << Polygon(<< Notched >>) >>,
      << Polygon(<< Notched, Hole >>) >>,
      << LineString(Spiral), Point(<< 1, 3 >>) >>,
      << LineString(Spiral), LineString(Fence) >>,
      << LineString(Dented) >>,
      << LineString(DentFirst) >>,
      << LineString(Bay) >>,
      << LineString(Dart) >>,
      << LineString(Wave) >>,
      << LineString(Still) >>,
      << LineString(Flat) >>,
      << Polygon(<< Flat >>) >> }

InputFeatures == {<< LineString(pts) >> : pts \in FamilyPaths} \cup Scenes

DiameterTols == {20, 30}

HasPolygon(qgs_features) ==
    \E k \in 1 .. Len(qgs_features) : qgs_features[k].type = "Polygon"

Init ==
    /\ qgs_in_features \in InputFeatures
    /\ diameter_tol \in DiameterTols
    /\ smooth_line \in BOOLEAN
    /\ flag_del_outer \in IF HasPolygon(qgs_in_features) THEN BOOLEAN ELSE {FALSE}
    /\ flag_del_inner \in IF HasPolygon(qgs_in_features) THEN BOOLEAN ELSE {FALSE}
    /\ rb_features = << >>
    /\ rb_geoms = << >>
    /\ rb_collection = RbCollection
    /\ rb_results = RbResults
    /\ bends_reduced = << >>
    /\ nbr_bend_reduced = 0
    /\ nbr_bend_detected = 0
    /\ pc = "load"
    /\ cur = 0
    /\ ind = 0
    /\ run = 1
    /\ reduced_in_pass = {}
    /\ canceled = FALSE
    /\ canceled_at = -1

\* rb_features with the ids of their RbGeom
FeatureIds(features) ==
    [f \in 1 .. Len(features) |->
        [type |-> features[f].type,
         rb_geom |-> [k \in 1 .. Len(features[f].rb_geom) |-> features[f].rb_geom[k].id]]]

\* pre_reduction_process: the features kept, [rb_features, nbr_pol_del,
\* nbr_hole_del]
KeptFeatures(created) ==
    IF flag_del_outer \/ flag_del_inner
    THEN del_outer_inner_ring(created, diameter_tol, flag_del_outer, flag_del_inner)
    ELSE [rb_features |-> created, nbr_pol_del |-> 0, nbr_hole_del |-> 0]

\* reduce_bends from pre_reduction_process to the start of the first pass
Loaded(kept, geoms) ==
    /\ pc' = "for"
    /\ rb_features' = FeatureIds(kept.rb_features)
    /\ rb_geoms' = geoms
    /\ rb_collection' = add_features(RbCollection, geoms)
    /\ rb_results' = [RbResults EXCEPT !.nbr_pol_del = kept.nbr_pol_del,
                                       !.nbr_hole_del = kept.nbr_hole_del]

LoadKept(kept) == Loaded(kept, pre_reduction_process(kept.rb_features))

LoadCreated(created) ==
    IF (flag_del_outer \/ flag_del_inner) /\ del_outer_inner_ring_raises(created)
    THEN /\ pc' = "error"
         /\ UNCHANGED << rb_features, rb_geoms, rb_collection, rb_results >>
    ELSE LoadKept(KeptFeatures(created))

\* reduce_bends up to the call of _manage_reduce_bend: create_rb_feature,
\* pre_reduction_process, add_features and the start of the first pass
Load ==
    /\ pc = "load"
    /\ LoadCreated(create_rb_feature(qgs_in_features, 0))
    /\ UNCHANGED << params, bends_reduced, nbr_bend_reduced, nbr_bend_detected,
                    cur, ind, reduced_in_pass >>

\* the RbGeom the for loop of _manage_reduce_bend is at
rb_geom == rb_geoms[cur + 1]

\* a feedback that never reports the signal
isCanceledNever == FALSE

\* feedback.isCanceled(), asked when the for loop comes to a line
isCanceled == canceled

\* a for loop that creates the bends of a geometry at its simplest form too
SkipGeomDetect ==
    /\ pc = "for"
    /\ cur < Len(rb_geoms)
    /\ ~isCanceled
    /\ rb_geoms[cur + 1].is_simplest
    /\ \E o \in manage_bend_creation(rb_collection, rb_results.nbr_pass,
                                     rb_geoms[cur + 1], diameter_tol) :
           /\ rb_collection' = o.col
           /\ rb_geoms' = [rb_geoms EXCEPT ![cur + 1] = o.rb_geom]
           /\ pc' = IF o.col.raised THEN "error" ELSE "flag"
    /\ UNCHANGED << params, rb_features, rb_results, bends_reduced,
                    nbr_bend_reduced, nbr_bend_detected, cur, ind, reduced_in_pass >>

\* for loop of _manage_reduce_bend: a geometry at its simplest form
SkipGeom ==
    /\ pc = "for"
    /\ cur < Len(rb_geoms)
    /\ ~isCanceled
    /\ rb_geom.is_simplest
    /\ cur' = cur + 1
    /\ UNCHANGED << params, rb_features, rb_geoms, rb_collection, rb_results,
                    bends_reduced, nbr_bend_reduced, nbr_bend_detected, pc, ind,
                    reduced_in_pass >>

\* for loop of _manage_reduce_bend: the bends of the line are created (o is
\* a result of manage_bend_creation)
Created(o) ==
    /\ rb_collection' = o.col
    /\ IF o.col.raised
       THEN /\ pc' = "error"
            /\ UNCHANGED << rb_geoms, nbr_bend_detected >>
       ELSE /\ pc' = "flag"
            /\ rb_geoms' = [rb_geoms EXCEPT ![cur + 1] = o.rb_geom]
            /\ nbr_bend_detected' = nbr_bend_detected + Len(o.rb_geom.bends)

\* for loop of _manage_reduce_bend: the call of manage_bend_creation
ManageBendCreation ==
    /\ pc = "for"
    /\ cur < Len(rb_geoms)
    /\ ~isCanceled
    /\ ~rb_geom.is_simplest
    /\ \E o \in manage_bend_creation(rb_collection, rb_results.nbr_pass,
                                     rb_geom, diameter_tol) : Created(o)
    /\ UNCHANGED << params, rb_features, rb_results, bends_reduced,
                    nbr_bend_reduced, cur, ind, reduced_in_pass >>

\* the bends of the line are flagged and the loop of process_bends starts
Flagged(flagged) ==
    /\ rb_geoms' = [rb_geoms EXCEPT ![cur + 1] = flagged]
    /\ IF Len(flagged.bends) = 0
       THEN pc' = "for" /\ cur' = cur + 1 /\ ind' = 0
       ELSE pc' = "process" /\ cur' = cur /\ ind' = Len(flagged.bends) - 1

\* for loop of _manage_reduce_bend: the call of flag_bend_to_reduce, and
\* the start of the loop of process_bends
FlagBendToReduce ==
    /\ pc = "flag"
    /\ Flagged(flag_bend_to_reduce(rb_geom, diameter_tol))
    /\ UNCHANGED << params, rb_features, rb_collection, rb_results, bends_reduced,
                    nbr_bend_reduced, nbr_bend_detected, reduced_in_pass >>

\* the loop of process_bends goes to the bend before, or ends
NextBend ==
    IF ind = 0
    THEN pc' = "for" /\ cur' = cur + 1 /\ ind' = 0
    ELSE pc' = "process" /\ cur' = cur /\ ind' = ind - 1

\* process_bends: a bend that is not to reduce
SkipBend ==
    /\ pc = "process"
    /\ ~At(rb_geom.bends, ind).to_reduce
    /\ NextBend
    /\ UNCHANGED << params, rb_features, rb_geoms, rb_collection, rb_results,
                    bends_reduced, nbr_bend_reduced, nbr_bend_detected,
                    reduced_in_pass >>

\* process_bends: validate_spatial_constraints raises
ValidateRaises ==
    /\ pc = "process"
    /\ At(rb_geom.bends, ind).to_reduce
    /\ validate_spatial_constraints_raises(rb_collection, ind, rb_geom)
    /\ pc' = "error"
    /\ UNCHANGED << params, rb_features, rb_geoms, rb_collection, rb_results,
                    bends_reduced, nbr_bend_reduced, nbr_bend_detected, cur, ind,
                    reduced_in_pass >>

\* process_bends: the spatial constraints refuse the bend (v is the result
\* of validate_spatial_constraints)
Rejected(v) ==
    /\ ~v.check_constraints
    /\ rb_geoms' = [rb_geoms EXCEPT ![cur + 1] = v.rb_geom]

RejectBend ==
    /\ pc = "process"
    /\ At(rb_geom.bends, ind).to_reduce
    /\ ~validate_spatial_constraints_raises(rb_collection, ind, rb_geom)
    /\ Rejected(validate_spatial_constraints(rb_collection, ind, rb_geom))
    /\ NextBend
    /\ UNCHANGED << params, rb_features, rb_collection, rb_results, bends_reduced,
                    nbr_bend_reduced, nbr_bend_detected, reduced_in_pass >>

\* process_bends: the vertices of the bend are deleted from the line (o is a
\* result of delete_vertex)
Deleted(line, bend, o) ==
    /\ rb_collection' = o.col
    /\ rb_geoms' = [rb_geoms EXCEPT ![cur + 1] = [line EXCEPT !.qgs_geom = o.qgs_geom]]
    /\ IF o.col.raised
       THEN /\ pc' = "error"
            /\ UNCHANGED << rb_results, nbr_bend_reduced, cur, ind, reduced_in_pass >>
       ELSE /\ rb_results' = [rb_results EXCEPT !.nbr_bend_reduced = @ + 1]
            /\ nbr_bend_reduced' = nbr_bend_reduced + 1
            /\ reduced_in_pass' = reduced_in_pass \cup
                   {[rb_geom |-> line.id, ind |-> ind, i |-> bend.i, j |-> bend.j,
                     chord |-> << At(line.qgs_geom, bend.i), At(line.qgs_geom, bend.j) >>,
                     canceled |-> canceled]}
            /\ NextBend

\* process_bends: the bend of the line is reduced
Reduced(line, bend) ==
    /\ bends_reduced' =
           IF smooth_line
           THEN Append(bends_reduced,
                       BendReduced(line, At(line.qgs_geom, bend.i),
                                   At(line.qgs_geom, bend.j), bend.qgs_geom_bend))
           ELSE bends_reduced
    /\ \E o \in delete_vertex(rb_collection, line, bend.i + 1, bend.j - 1) :
           Deleted(line, bend, o)

\* process_bends: the spatial constraints accept the bend
Accepted(v) ==
    /\ v.check_constraints
    /\ Reduced(v.rb_geom, At(v.rb_geom.bends, ind))

ReduceOneBend ==
    /\ pc = "process"
    /\ At(rb_geom.bends, ind).to_reduce
    /\ ~validate_spatial_constraints_raises(rb_collection, ind, rb_geom)
    /\ Accepted(validate_spatial_constraints(rb_collection, ind, rb_geom))
    /\ UNCHANGED << params, rb_features, nbr_bend_detected >>

\* for loop of _manage_reduce_bend: the signal is raised when the loop comes
\* to a line, the loop is left
CancelBreak ==
    /\ pc = "for"
    /\ cur < Len(rb_geoms)
    /\ isCanceled
    /\ pc' = "break"
    /\ UNCHANGED << params, rb_features, rb_geoms, rb_collection, rb_results,
                    bends_reduced, nbr_bend_reduced, nbr_bend_detected, cur, ind,
                    reduced_in_pass >>

\* the end of a pass that adds the bends detected in every pass to the
\* statistic
EndPassSum ==
    /\ \/ pc = "for" /\ cur = Len(rb_geoms)
       \/ pc = "break"
    /\ LET logged == [rb_results EXCEPT
                         !.lines_log_info =
                             Append(@, [nbr_pass |-> rb_results.nbr_pass,
                                        nbr_bend_detected |-> nbr_bend_detected,
                                        nbr_bend_reduced |-> nbr_bend_reduced]),
                         !.nbr_bend_detected =
                             @ + nbr_bend_detected]
       IN  IF rb_results.nbr_pass > min_nbr_pass /\ nbr_bend_reduced = 0
           THEN /\ rb_results' = logged
                /\ pc' = IF smooth_line /\ bends_reduced # << >> THEN "smooth" ELSE "done"
                /\ UNCHANGED << nbr_bend_reduced, nbr_bend_detected, reduced_in_pass >>
           ELSE /\ rb_results' = [logged EXCEPT !.nbr_pass = @ + 1]
                /\ pc' = "for"
                /\ nbr_bend_reduced' = 0
                /\ nbr_bend_detected' = 0
                /\ reduced_in_pass' = {}
    /\ cur' = 0
    /\ ind' = 0
    /\ UNCHANGED << params, rb_features, rb_geoms, rb_collection, bends_reduced >>

\* _manage_reduce_bend after the for loop: the log, the breaking condition
\* and the start of the next pass or of manage_smooth_line
EndPass ==
    /\ \/ pc = "for" /\ cur = Len(rb_geoms)
       \/ pc = "break"
    /\ LET logged == [rb_results EXCEPT
                         !.lines_log_info =
                             Append(@, [nbr_pass |-> rb_results.nbr_pass,
                                        nbr_bend_detected |-> nbr_bend_detected,
                                        nbr_bend_reduced |-> nbr_bend_reduced]),
                         !.nbr_bend_detected =
                             IF rb_results.nbr_pass = 0 THEN nbr_bend_detected ELSE @]
       IN  IF rb_results.nbr_pass > min_nbr_pass /\ nbr_bend_reduced = 0
           THEN /\ rb_results' = logged
                /\ pc' = IF smooth_line /\ bends_reduced # << >> THEN "smooth" ELSE "done"
                /\ UNCHANGED << nbr_bend_reduced, nbr_bend_detected, reduced_in_pass >>
           ELSE /\ rb_results' = [logged EXCEPT !.nbr_pass = @ + 1]
                /\ pc' = "for"
                /\ nbr_bend_reduced' = 0
                /\ nbr_bend_detected' = 0
                /\ reduced_in_pass' = {}
    /\ cur' = 0
    /\ ind' = 0
    /\ UNCHANGED << params, rb_features, rb_geoms, rb_collection, bends_reduced >>

\* position in rb_geoms of the RbGeom of a BendReduced
GeomPos(bend_reduced) ==
    CHOOSE k \in 1 .. Len(rb_geoms) : rb_geoms[k].id = bend_reduced.rb_geom

\* the loop of manage_smooth_line goes to the next BendReduced, or ends
NextBendReduced ==
    /\ ind' = ind + 1
    /\ pc' = IF ind + 1 = Len(bends_reduced) THEN "done" ELSE "smooth"

\* manage_smooth_line: set_values on a BendReduced
SetValues(bend_reduced) ==
    set_values(bend_reduced, rb_geoms[GeomPos(bend_reduced)].qgs_geom, diameter_tol)

\* manage_smooth_line: a reduced bend that cannot be smoothed
KeepStraight ==
    /\ pc = "smooth"
    /\ ~SetValues(At(bends_reduced, ind)).is_line_smoothable
    /\ NextBendReduced
    /\ UNCHANGED << params, rb_features, rb_geoms, rb_collection, rb_results,
                    bends_reduced, nbr_bend_reduced, nbr_bend_detected, cur,
                    reduced_in_pass >>

\* manage_smooth_line: the smooth sub line has entered the line (o is a
\* result of add_vertex)
Added(pos, o) ==
    /\ rb_collection' = o.col
    /\ rb_geoms' = [rb_geoms EXCEPT ![pos].qgs_geom = o.qgs_geom]
    /\ IF o.col.raised
       THEN pc' = "error" /\ UNCHANGED << rb_results, ind >>
       ELSE /\ rb_results' = [rb_results EXCEPT !.nbr_line_smooth = @ + 1]
            /\ NextBendReduced

\* manage_smooth_line: the BendReduced with the i and j of val is smoothed
Smoothed(bend_reduced, pos, val) ==
    /\ val.is_line_smoothable
    /\ \E o \in add_vertex(rb_collection, rb_geoms[pos], val.i, val.j,
                           calculate_smooth_line(bend_reduced, rb_geoms[pos].qgs_geom,
                                                 val.i, val.j)) :
           Added(pos, o)

SmoothReduced(bend_reduced) ==
    Smoothed(bend_reduced, GeomPos(bend_reduced), SetValues(bend_reduced))

\* manage_smooth_line: a reduced bend is smoothed
SmoothBend ==
    /\ pc = "smooth"
    /\ SmoothReduced(At(bends_reduced, ind))
    /\ UNCHANGED << params, rb_features, bends_reduced, nbr_bend_reduced,
                    nbr_bend_detected, cur, reduced_in_pass >>

\* RbPolygon/RbLineString/RbPoint.get_qgs_feature for the features of the run
qgs_features_out ==
    LET geom_of(id) == (CHOOSE g \in {rb_geoms[k] : k \in 1 .. Len(rb_geoms)} :
                            g.id = id).qgs_geom
    IN  [f \in 1 .. Len(rb_features) |->
            [type |-> rb_features[f].type,
             geom |-> IF rb_features[f].type = "Polygon"
                      THEN [k \in 1 .. Len(rb_features[f].rb_geom) |->
                               geom_of(rb_features[f].rb_geom[k])]
                      ELSE geom_of(rb_features[f].rb_geom[1])]]

\* the user cancels the run while _manage_reduce_bend loops: isCanceled()
\* is true from then on
Cancel ==
    /\ pc \in {"for", "flag", "process"}
    /\ ~canceled
    /\ canceled' = TRUE
    /\ canceled_at' = Len(rb_results.lines_log_info)
    /\ UNCHANGED << qgs_in_features, diameter_tol, smooth_line, flag_del_outer,
                    flag_del_inner, run, rb_features, rb_geoms, rb_collection,
                    rb_results, bends_reduced, nbr_bend_reduced, nbr_bend_detected,
                    pc, cur, ind, reduced_in_pass >>

Next ==
    \/ Load
    \/ SkipGeom
    \/ ManageBendCreation
    \/ FlagBendToReduce
    \/ SkipBend
    \/ ValidateRaises
    \/ RejectBend
    \/ ReduceOneBend
    \/ CancelBreak
    \/ EndPass
    \/ KeepStraight
    \/ SmoothBend
    \/ Cancel

Spec == Init /\ [][Next]_vars

\* where the run is: the statement and the two loop indices
Position == << pc, cur, ind >>

\* the run is not over and goes to another position.  reduce is sequential
\* code without a wait: every step of the run (Next but Cancel, the step of
\* the user) is such a step, and one is possible as long as the run has
\* neither returned nor raised
Advance ==
    /\ pc \notin {"done", "error"}
    /\ pc' \in {"load", "for", "break", "flag", "process", "smooth", "done", "error"}
    /\ cur' \in {0, cur, cur + 1}
    /\ ind' \in 0 .. (ind + 1 + SumSeq([k \in 1 .. Len(rb_geoms) |-> Len(rb_geoms[k].qgs_geom)]))

\* the run does not stop before it is over
FairSpec == Spec /\ WF_Position(Advance)

\* ReduceBend.reduce called again on the features the first run returned
ReduceAgain ==
    /\ pc = "done"
    /\ run = 1
    /\ ~canceled
    /\ qgs_in_features' = qgs_features_out
    /\ run' = 2
    /\ rb_features' = << >>
    /\ rb_geoms' = << >>
    /\ rb_collection' = RbCollection
    /\ rb_results' = RbResults
    /\ bends_reduced' = << >>
    /\ nbr_bend_reduced' = 0
    /\ nbr_bend_detected' = 0
    /\ pc' = "load"
    /\ cur' = 0
    /\ ind' = 0
    /\ reduced_in_pass' = {}
    /\ UNCHANGED << diameter_tol, smooth_line, flag_del_outer, flag_del_inner,
                    canceled, canceled_at >>

NextTwice == Next \/ ReduceAgain

SpecTwice == Init /\ [][NextTwice]_vars

-----------------------------------------------------------------------------
\* What the properties below speak of

\* detect_bends on its own, on a closed line whose start/end vertex is moved
\* as pivot_closed_line moves it.  The closed lines: a base with two square
\* corners under a path of the family, without three vertices in a row on a
\* line (delete_co_linear has run)
TopRing(pts) ==
    << << 0, 0 >>, << Last(pts)[1], 0 >> >>
        \o [k \in 1 .. Len(pts) |->
               << pts[Len(pts) + 1 - k][1], pts[Len(pts) + 1 - k][2] + 20 >>]
        \o << << 0, 0 >> >>

NoFlatVertex(ring) ==
    \A k \in 1 .. (Len(ring) - 1) :
        Cross(ring[IF k = 1 THEN Len(ring) - 1 ELSE k - 1], ring[k], ring[k + 1]) # 0

Rings == {ring \in {TopRing(pts) : pts \in FamilyPaths} : NoFlatVertex(ring)}

\* the vertices that lie inside a bend, whether it needs a reduction or not
AnyPivots(bends, min_adj_area) ==
    UNION {(bends[k].i + 1) .. (bends[k].j - 1) : k \in 1 .. Len(bends)}

\* the vertices that lie inside a bend that needs no reduction
SafePivots(bends, min_adj_area) ==
    UNION {(bends[k].i + 1) .. (bends[k].j - 1) :
              k \in {m \in 1 .. Len(bends) :
                        ~(/\ Area1000(bends[m].area) < min_adj_area
                          /\ bends[m].adj_area <= min_adj_area)}}

InitPivot ==
    /\ qgs_in_features \in {<< LineString(ring) >> : ring \in Rings}
    /\ diameter_tol \in DiameterTols
    /\ smooth_line = FALSE
    /\ flag_del_outer = FALSE
    /\ flag_del_inner = FALSE
    /\ rb_features = FeatureIds(create_rb_feature(qgs_in_features, 0))
    /\ rb_geoms = << detect_bends(RbGeom(0, qgs_in_features[1].geom, "LineString")) >>
    /\ rb_collection = add_features(RbCollection, rb_geoms)
    /\ rb_results = RbResults
    /\ bends_reduced = << >>
    /\ nbr_bend_reduced = 0
    /\ nbr_bend_detected = 0
    /\ pc = "for"
    /\ cur = 0
    /\ ind = 0
    /\ run = 1
    /\ reduced_in_pass = {}
    /\ canceled = FALSE
    /\ canceled_at = -1

\* the start/end vertex is moved to a vertex inside a bend that needs no
\* reduction and detect_bends creates the bends again
PivotDetect ==
    /\ pc \in {"for", "flag"}
    /\ \E new_start_end \in SafePivots(rb_geoms[1].bends,
                                       calculate_min_adj_area(diameter_tol)) :
           rb_geoms' = << detect_bends([rb_geoms[1] EXCEPT
                             !.qgs_geom = Pivoted(@, new_start_end)]) >>
    /\ pc' = "flag"
    /\ UNCHANGED << params, rb_features, rb_collection, rb_results, bends_reduced,
                    nbr_bend_reduced, nbr_bend_detected, cur, ind, reduced_in_pass >>

SpecPivot == InitPivot /\ [][PivotDetect]_vars

\* RbCollection.delete_vertex on its own: a line and a collection whose index
\* holds the segments of the line, or all of them but one
InitDelete ==
    /\ qgs_in_features \in {<< LineString(pts) >> : pts \in FamilyPaths}
    /\ diameter_tol \in DiameterTols
    /\ smooth_line = FALSE
    /\ flag_del_outer = FALSE
    /\ flag_del_inner = FALSE
    /\ rb_features = FeatureIds(create_rb_feature(qgs_in_features, 0))
    /\ rb_geoms = pre_reduction_process(create_rb_feature(qgs_in_features, 0))
    /\ \E col \in {add_features(RbCollection, rb_geoms)} :
           \E lost \in {{}} \cup {{e} : e \in col.spatial_index} :
               rb_collection = [col EXCEPT !.spatial_index = @ \ lost]
    /\ rb_results = RbResults
    /\ bends_reduced = << >>
    /\ nbr_bend_reduced = 0
    /\ nbr_bend_detected = 0
    /\ pc = "process"
    /\ cur = 0
    /\ ind = 0
    /\ run = 1
    /\ reduced_in_pass = {}
    /\ canceled = FALSE
    /\ canceled_at = -1

\* a call of delete_vertex for the vertices v_id_start .. v_id_end of the
\* line; the exception of _delete_segment is caught nowhere
DeleteVertex ==
    /\ pc = "process"
    /\ \E v_id_start, v_id_end \in 1 .. (Len(rb_geoms[1].qgs_geom) - 2) :
           /\ v_id_start <= v_id_end
           /\ \E o \in delete_vertex(rb_collection, rb_geoms[1], v_id_start, v_id_end) :
                  /\ rb_collection' = o.col
                  /\ rb_geoms' = [rb_geoms EXCEPT ![1].qgs_geom = o.qgs_geom]
                  /\ pc' = IF o.col.raised THEN "error" ELSE "process"
    /\ UNCHANGED << params, rb_features, rb_results, bends_reduced, nbr_bend_reduced,
                    nbr_bend_detected, cur, ind, reduced_in_pass >>

SpecDelete == InitDelete /\ [][DeleteVertex]_vars

\* the engine holds loaded features and has not raised
Running == pc \notin {"load", "error"}

\* what a path puts in the index: its consecutive vertex pairs in path
\* direction, or its one point
PathGeoms(g) ==
    IF g.original_geom_type = "Point" THEN << g.qgs_geom >> ELSE Segments(g.qgs_geom)

Occurrences(geoms, geom) == Cardinality({m \in 1 .. Len(geoms) : geoms[m] = geom})

IndexCount(geom) == Cardinality({e \in rb_collection.spatial_index : e.geom = geom})

PathCount(geom) ==
    SumSeq([k \in 1 .. Len(rb_geoms) |-> Occurrences(PathGeoms(rb_geoms[k]), geom)])

AllGeoms ==
    {e.geom : e \in rb_collection.spatial_index}
        \cup UNION {{PathGeoms(rb_geoms[k])[m] : m \in 1 .. Len(PathGeoms(rb_geoms[k]))} :
                       k \in 1 .. Len(rb_geoms)}

\* the paths as they were read from the input features, by id
InputParts == get_rb_geoms(create_rb_feature(qgs_in_features, 0))

InputOf(id) == InputParts[id + 1].qgs_geom

\* C1: after every completed operation that touches geometry (load,
\* delete_vertex, pivot_closed_line, add_vertex) the multiset of the geometries
\* in the spatial index is the union over the paths of their consecutive
\* vertex pairs, plus one entry per point
IndexIsPaths ==
    Running => \A geom \in AllGeoms : IndexCount(geom) = PathCount(geom)

\* two paths, a bend of one reduced and its base smoothed, the run over
IndexedAfterSmoothing ==
    /\ pc = "done"
    /\ Len(rb_geoms) = 2
    /\ rb_results.nbr_bend_reduced > 0
    /\ rb_results.nbr_line_smooth > 0

\* the entry e lies on the path its tag names
TaggedByOwner(e) ==
    \E k \in 1 .. Len(rb_geoms) :
        /\ rb_geoms[k].id = e.origin
        /\ Occurrences(PathGeoms(rb_geoms[k]), e.geom) > 0

\* C2: between operations, every entry of the spatial index is tagged with
\* the id of the path that currently contains its segment, also when two
\* paths hold a coincident segment and a bend of one is reduced over it
EntriesTaggedByOwner ==
    Running => \A e \in rb_collection.spatial_index : TaggedByOwner(e)

\* C3: a path whose input vertex sequence is simple has a simple output
\* vertex sequence after a full run, smoothing included
SimpleStaysSimple ==
    pc = "done" =>
        \A k \in 1 .. Len(rb_geoms) :
            (rb_geoms[k].original_geom_type # "Point" /\ IsSimple(InputOf(rb_geoms[k].id)))
                => IsSimple(rb_geoms[k].qgs_geom)

\* the two geometries share no point
GeomsDisjoint(a, b) ==
    \A m \in 1 .. Len(PathGeoms(a)), n \in 1 .. Len(PathGeoms(b)) :
        LET s == PathGeoms(a)[m]
            t == PathGeoms(b)[n]
        IN  CASE Len(s) = 1 /\ Len(t) = 1 -> s[1] # t[1]
              [] Len(s) = 1 /\ Len(t) = 2 -> ~OnSegment(t[1], t[2], s[1])
              [] Len(s) = 2 /\ Len(t) = 1 -> ~OnSegment(s[1], s[2], t[1])
              [] OTHER -> ~SegmentsIntersect(s[1], s[2], t[1], t[2])

\* C4: two distinct input paths (or a path and a point) that are disjoint
\* on input are disjoint in the output of a full run, smoothing included
DisjointStayDisjoint ==
    pc = "done" =>
        \A k, l \in 1 .. Len(rb_geoms) :
            (k < l /\ GeomsDisjoint(InputParts[rb_geoms[k].id + 1], InputParts[rb_geoms[l].id + 1]))
                => GeomsDisjoint(rb_geoms[k], rb_geoms[l])

\* the outer loop of _manage_reduce_bend is over (or the run has raised)
LoopExited == pc \in {"smooth", "done", "error"}

\* a step that commits the reduction of a bend of the current path
CommitsReduction == rb_results'.nbr_bend_reduced = rb_results.nbr_bend_reduced + 1

\* the passes logged so far that reduced at least one bend
ReducingPasses ==
    Cardinality({k \in 1 .. Len(rb_results.lines_log_info) :
                    rb_results.lines_log_info[k].nbr_bend_reduced > 0})

\* the vertices of all the paths of the input
TotalVertices == SumSeq([k \in 1 .. Len(InputParts) |-> Len(InputParts[k].qgs_geom)])

\* C5: the outer loop of _manage_reduce_bend eventually terminates; every
\* committed reduction strictly decreases the vertex count of its path, and
\* the passes that reduce at least one bend never outnumber the vertices of
\* all the paths
LoopTerminates ==
    /\ <>LoopExited
    /\ [][CommitsReduction =>
              Len(rb_geoms'[cur + 1].qgs_geom) < Len(rb_geoms[cur + 1].qgs_geom)]_vars
    /\ [](ReducingPasses <= TotalVertices)

\* the loop is over after two passes that each reduced a bend
ExitedAfterReducingPasses == pc = "done" /\ ReducingPasses >= 2

\* a logged pass that reduced nothing once the minimum pass count was reached
ZeroPassAtMinimum(line) == line.nbr_pass >= min_nbr_pass /\ line.nbr_bend_reduced = 0

\* C6: the outer loop exits at the end of the first pass that reduced no
\* bend once the minimum pass count of 1 is reached: no further pass is
\* executed (and logged) after such a pass
NoPassAfterZeroPass ==
    \A k \in 1 .. Len(rb_results.lines_log_info) :
        ZeroPassAtMinimum(rb_results.lines_log_info[k]) =>
            /\ k = Len(rb_results.lines_log_info)
            /\ pc \notin {"for", "flag", "process"}

\* a bend small enough to be a candidate of flag_bend_to_reduce
Candidate(bend) ==
    /\ Area1000(bend.area) < calculate_min_adj_area(diameter_tol)
    /\ bend.adj_area <= calculate_min_adj_area(diameter_tol)

\* C7: after flag_bend_to_reduce on any path no two bends adjacent in the
\* bend list of the path both have to_reduce = true, whatever the order of
\* the adjusted areas; hence no two bends adjacent in the list are committed
\* in the same pass
NoAdjacentFlags ==
    /\ \A k \in 1 .. Len(rb_geoms) : \A m \in 1 .. (Len(rb_geoms[k].bends) - 1) :
           ~(rb_geoms[k].bends[m].to_reduce /\ rb_geoms[k].bends[m + 1].to_reduce)
    /\ \A a, b \in reduced_in_pass :
           a.rb_geom = b.rb_geom => a.ind - b.ind \notin {1, -1}

\* three candidates in a row are being processed: the outer two are flagged
\* and the one between them, as small, is left for a later pass
MiddleCandidateLeft ==
    /\ pc = "process"
    /\ \E m \in 1 .. (Len(rb_geom.bends) - 2) :
           /\ Candidate(rb_geom.bends[m]) /\ rb_geom.bends[m].to_reduce
           /\ Candidate(rb_geom.bends[m + 1]) /\ ~rb_geom.bends[m + 1].to_reduce
           /\ Candidate(rb_geom.bends[m + 2]) /\ rb_geom.bends[m + 2].to_reduce

\* C8: in every pass and for every path, no two bends reduced in the pass
\* share a boundary vertex: the vertices i1 and j1 of one committed bend are
\* different from the vertices i2 and j2 of another one of the same path
NoSharedBoundary ==
    \A a, b \in reduced_in_pass :
        (a # b /\ a.rb_geom = b.rb_geom) => {a.i, a.j} \cap {b.i, b.j} = {}

\* C8 as the code has it: two bends reduced in the same pass of the same
\* path never overlap, one ends at or before the vertex where the other
\* starts, so that no vertex is removed twice; they may meet at that vertex
ReducedSpansApart ==
    \A a, b \in reduced_in_pass :
        (a # b /\ a.rb_geom = b.rb_geom) => (a.j <= b.i \/ b.j <= a.i)

\* two bends of one path were reduced in the same pass, and they meet at a
\* boundary vertex
TwoReducedMeet ==
    \E a, b \in reduced_in_pass : a.rb_geom = b.rb_geom /\ a.j = b.i

\* C9: for every path and every run, with the smoothing flag on or off, the
\* output has at most as many vertices as the input
NeverMoreVertices ==
    pc = "done" =>
        \A k \in 1 .. Len(rb_geoms) :
            Len(rb_geoms[k].qgs_geom) <= Len(InputOf(rb_geoms[k].id))

\* C9 as the code has it: the convergence loop never adds a vertex, and
\* manage_smooth_line adds two vertices per bend it smooths; a path never has
\* more vertices than on input plus two per line smoothed, hence never more
\* than on input when the smoothing flag is off
VerticesOnlyFromSmoothing ==
    \A k \in 1 .. Len(rb_geoms) :
        /\ Len(rb_geoms[k].qgs_geom)
               <= Len(InputOf(rb_geoms[k].id)) + 2 * rb_results.nbr_line_smooth
        /\ ~smooth_line => rb_results.nbr_line_smooth = 0

\* the run is over, a bend was smoothed and a path ends with more vertices
\* than it came with
SmoothedHasMore ==
    /\ pc = "done"
    /\ rb_results.nbr_line_smooth > 0
    /\ \E k \in 1 .. Len(rb_geoms) : Len(rb_geoms[k].qgs_geom) > Len(InputOf(rb_geoms[k].id))

\* C10: reduce run a second time, with the same tolerance and flags, on the
\* output of a first run commits no bend reduction: the bends-reduced
\* statistic is 0 and every vertex sequence is unchanged
SecondRunChangesNothing ==
    (run = 2 /\ pc = "done") =>
        /\ rb_results.nbr_bend_reduced = 0
        /\ qgs_features_out = qgs_in_features


\* the signal was raised and the for loop is between two paths or left
BetweenPaths == canceled /\ pc \in {"for", "break"}

\* a step that leaves every path, the index and the bends kept for smoothing
\* as they are and starts no path
StartsNoPath ==
    /\ rb_geoms' = rb_geoms
    /\ rb_collection' = rb_collection
    /\ bends_reduced' = bends_reduced
    /\ pc' \notin {"flag", "process"}

\* a step inside the convergence loop that changes at most the path in
\* progress, and only by taking vertices out of it
FinishesPath ==
    /\ rb_results'.nbr_bend_reduced >= rb_results.nbr_bend_reduced
    /\ \A k \in 1 .. Len(rb_geoms) :
           \/ rb_geoms'[k] = rb_geoms[k]
           \/ k = cur + 1 /\ Len(rb_geoms'[k].qgs_geom) <= Len(rb_geoms[k].qgs_geom)

\* the original statement of C11: no bend is reduced once the signal is raised
NoReductionAfterCancel == \A a \in reduced_in_pass : ~a.canceled

\* C11: once the cancel signal is raised the for loop starts no further path:
\* from the next check between two paths on, no path and no index entry
\* changes and nothing is detected or flagged until the loop is left; the
\* path in progress when the signal is raised is finished, which only takes
\* vertices out of that path; at most 3 passes are logged after the signal
\* and the loop is left; the index still holds the segments of the paths
CancelStopsPaths ==
    /\ [][BetweenPaths => StartsNoPath]_vars
    /\ [][(canceled /\ pc \in {"flag", "process"}) => FinishesPath]_vars
    /\ [](canceled => Len(rb_results.lines_log_info) <= canceled_at + 3)
    /\ [](canceled => IndexIsPaths)
    /\ (canceled ~> LoopExited)

\* the signal was raised while a bend of the first path waited, the bend was
\* reduced all the same and the loop is left before the second path
CanceledInsidePath ==
    /\ pc = "break"
    /\ cur > 0
    /\ \E a \in reduced_in_pass : a.canceled


\* the convergence loop of _manage_reduce_bend is running
InLoop == pc \in {"for", "break", "flag", "process"}

\* a step that leaves the simplest paths simplest and their vertices as they are
KeepsSimplest ==
    \A k \in 1 .. Len(rb_geoms) :
        rb_geoms[k].is_simplest =>
            /\ rb_geoms'[k].is_simplest
            /\ rb_geoms'[k].qgs_geom = rb_geoms[k].qgs_geom

\* the for loop is at a path at its simplest form
AtSimplest == pc = "for" /\ cur < Len(rb_geoms) /\ rb_geoms[cur + 1].is_simplest

\* C12: the simplest state of a path is terminal: no step of the convergence
\* loop makes is_simplest false again or changes the vertices of a simplest
\* path; when the for loop comes to a simplest path it creates and flags no
\* bend on it; a path that becomes simplest while it is processed has no
\* bend left to flag or to reduce
SimplestIsTerminal ==
    /\ [][InLoop => KeepsSimplest]_vars
    /\ [][AtSimplest => pc' \notin {"flag", "process"}]_vars
    /\ [](pc \in {"flag", "process"} /\ rb_geoms[cur + 1].is_simplest
              => rb_geoms[cur + 1].bends = << >>)

\* the for loop of a third or later pass comes to a path that lost vertices
\* and is now at its simplest form
ReducedToSimplest ==
    /\ AtSimplest
    /\ rb_results.nbr_pass >= 2
    /\ Len(rb_geoms[cur + 1].qgs_geom) < Len(InputOf(rb_geoms[cur + 1].id))


\* a path that is degenerate on input: of zero length, or closed and of zero area
Degenerate(pts) == PathLength100(pts) = 0 \/ (pts[1] = Last(pts) /\ Area2(pts) = 0)

\* every path of the input is degenerate
DegenerateInput ==
    \A k \in 1 .. Len(InputParts) : Degenerate(InputParts[k].qgs_geom)

\* C13: a path that is degenerate on input is simplest from its creation, is
\* never reduced and never makes the run fail, whatever the flags that delete
\* the small polygons and the small holes
DegenerateNeverFails ==
    DegenerateInput =>
        /\ pc # "error"
        /\ \A k \in 1 .. Len(rb_geoms) :
               rb_geoms[k].is_simplest /\ rb_geoms[k].qgs_geom = InputOf(rb_geoms[k].id)


\* the index holds an entry from qgs_pnt0 to qgs_pnt1
HasEntry(segment) == \E e \in rb_collection.spatial_index : e.geom = segment

\* the segments of the line that the step takes out of it
SegmentsLeft(k) ==
    {Segments(rb_geoms[k].qgs_geom)[m] : m \in 1 .. Len(rb_geoms[k].qgs_geom) - 1}
        \ {Segments(rb_geoms'[k].qgs_geom)[m] : m \in 1 .. Len(rb_geoms'[k].qgs_geom) - 1}

\* C14: a segment deletion that finds no entry with the start and the end
\* point of the segment ends in a fatal error: a vertex edit goes through only
\* if every segment it takes out of the line had its entry, a failed
\* deletion leaves the line as it was and stops the run, and nothing is
\* executed after the error
MissingEntryIsFatal ==
    /\ [][rb_geoms' # rb_geoms => \A segment \in SegmentsLeft(1) : HasEntry(segment)]_vars
    /\ [](rb_collection.raised <=> pc = "error")
    /\ [][pc # "error"]_vars

\* a first edit went through, a later one found no entry for one of its
\* segments and stopped the run
RaisedOnMissing ==
    /\ pc = "error"
    /\ rb_collection.raised
    /\ 2 < Len(rb_geoms[1].qgs_geom)
    /\ Len(rb_geoms[1].qgs_geom) < Len(InputOf(0))


\* the points of the point features
PointGeoms ==
    {rb_geoms[k].qgs_geom[1] : k \in {m \in 1 .. Len(rb_geoms) :
                                         rb_geoms[m].original_geom_type = "Point"}}

\* C15: a point feature is simplest from its creation and is never modified
\* or removed: its geometry and its index entry stay, and no bend is
\* committed whose new sub line (from vertex i to vertex j of the bend that is
\* reduced) passes through the point
NoChordThroughPoint ==
    /\ \A k \in 1 .. Len(rb_geoms) :
           rb_geoms[k].original_geom_type = "Point" =>
               /\ rb_geoms[k].is_simplest
               /\ rb_geoms[k].qgs_geom = InputOf(rb_geoms[k].id)
               /\ Running => HasEntry(rb_geoms[k].qgs_geom)
    /\ \A a \in reduced_in_pass :
           \A p \in PointGeoms : ~OnSegment(a.chord[1], a.chord[2], p)


\* the run is over for the square with a notch, given alone as a line or as
\* a polygon, without smoothing and without the signal
NotchedDone ==
    /\ qgs_in_features \in {<< LineString(Notched) >>, << Polygon(<< Notched >>) >>}
    /\ pc = "done"
    /\ ~smooth_line
    /\ ~canceled

\* the ring is the square: its four corners, from any of them
IsSquare(pts) ==
    /\ Len(pts) = 5
    /\ pts[1] = pts[5]
    /\ {pts[k] : k \in 1 .. 4} = {<< 0, 0 >>, << 40, 0 >>, << 40, 40 >>, << 0, 40 >>}

\* C16: a closed square ring with one small triangular notch, alone, is
\* reduced to the square, one pass reduces a bend, and the statistics of the
\* run report 1 bend detected and 1 bend reduced
NotchedSquareStatistics ==
    NotchedDone =>
        /\ Len(rb_geoms) = 1
        /\ IsSquare(rb_geoms[1].qgs_geom)
        /\ ReducingPasses = 1
        /\ rb_results.nbr_bend_reduced = 1
        /\ rb_results.nbr_bend_detected = 1


\* the turn at the vertex k (0-based) of a line: 1 to the left, -1 to the right
Turn(pts, k) == Sign(Cross(At(pts, k - 1), At(pts, k), At(pts, k + 1)))

\* the excursion at the vertex k: the bend formed by the vertex and its neighbours
Excursion(pts, k) == Bend(k - 1, k + 1, create_polygon(k - 1, k + 1, pts))

\* an open zig-zag of 5 points: the turns at its interior vertices alternate
\* and every excursion is below the tolerance
ZigZag(pts) ==
    /\ Len(pts) = 5
    /\ pts[1] # pts[5]
    /\ Turn(pts, 1) # 0
    /\ Turn(pts, 2) = -Turn(pts, 1)
    /\ Turn(pts, 3) = Turn(pts, 1)
    /\ \A k \in 1 .. 3 : Candidate(Excursion(pts, k))

\* the run is over for a zig-zag given alone, without smoothing and without
\* the signal
ZigZagDone ==
    /\ pc = "done"
    /\ ~smooth_line
    /\ ~canceled
    /\ Len(qgs_in_features) = 1
    /\ qgs_in_features[1].type = "LineString"
    /\ ZigZag(qgs_in_features[1].geom)

\* the original statement of C17: the zig-zag ends as its two endpoints
ZigZagToEndpoints ==
    ZigZagDone =>
        rb_geoms[1].qgs_geom = << qgs_in_features[1].geom[1], qgs_in_features[1].geom[5] >>

\* C17: for an open zig-zag of 5 points with every excursion below the
\* tolerance and no other feature, the run ends with the two endpoints kept
\* and no bend below the tolerance left unreduced; the path is then its two
\* endpoints, or it keeps vertices whose bends are all at or above the
\* tolerance
ZigZagNoSmallBendLeft ==
    ZigZagDone =>
        /\ rb_geoms[1].qgs_geom[1] = qgs_in_features[1].geom[1]
        /\ Last(rb_geoms[1].qgs_geom) = qgs_in_features[1].geom[5]
        /\ \A k \in 1 .. Len(rb_geoms[1].bends) : ~Candidate(rb_geoms[1].bends[k])
        /\ Len(rb_geoms[1].qgs_geom) > 2 => rb_geoms[1].bends # << >>

\* a zig-zag ended as its two endpoints
ZigZagReduced == ZigZagDone /\ Len(rb_geoms[1].qgs_geom) = 2


\* the polygons of the bends of the closed line: they tell the vertices of
\* a bend wherever the line starts
BendPolygons(bends) == {bends[k].qgs_geom_bend : k \in 1 .. Len(bends)}

\* the vertices inside a bend: all those of its polygon but its two ends
InsideBend(bend) ==
    {bend.qgs_geom_bend[k] : k \in 2 .. (Len(bend.qgs_geom_bend) - 2)}

\* the original statement of C18: the same set of bends whichever vertex
\* inside a bend that needs no reduction is the start/end
PivotKeepsAllBends ==
    [][(pc = "flag" /\ pc' = "flag") =>
           BendPolygons(rb_geoms'[1].bends) = BendPolygons(rb_geoms[1].bends)]_vars

\* a bend is found again, with the same vertices, after the step
FoundAgain(bend) == bend.qgs_geom_bend \in BendPolygons(rb_geoms'[1].bends)

\* C18: for a closed path, moving the start/end vertex to a vertex inside a
\* bend that needs no reduction keeps the segments of the path, and
\* detect_bends finds again, with the same vertices, every bend but the first
\* and the last of the list (the two parts of the run of vertices that holds
\* the old start/end) and the bend that holds the new start/end; every bend
\* that needs a reduction, between the first and the last, is found again
PivotKeepsSmallBends ==
    [][pc' = "flag" =>
           /\ {Segments(rb_geoms'[1].qgs_geom)[k] : k \in 1 .. Len(rb_geoms'[1].qgs_geom) - 1}
                  = {Segments(rb_geoms[1].qgs_geom)[k] : k \in 1 .. Len(rb_geoms[1].qgs_geom) - 1}
           /\ \A k \in 2 .. (Len(rb_geoms[1].bends) - 1) :
                  /\ rb_geoms'[1].qgs_geom[1] \notin InsideBend(rb_geoms[1].bends[k])
                         => FoundAgain(rb_geoms[1].bends[k])
                  /\ Candidate(rb_geoms[1].bends[k]) => FoundAgain(rb_geoms[1].bends[k])]_vars

\* the start/end vertex was moved, and a bend that needs a reduction lies
\* between the first and the last bend
PivotedWithSmallBend ==
    /\ pc = "flag"
    /\ rb_geoms[1].qgs_geom[1] # qgs_in_features[1].geom[1]
    /\ \E k \in 2 .. (Len(rb_geoms[1].bends) - 1) : Candidate(rb_geoms[1].bends[k])


\* the bends that the step commits
Committed == reduced_in_pass' \ reduced_in_pass

\* C19: the sub line that replaces the vertices of a bend that is committed
\* (from vertex i to vertex j of the bend committed, the alternate bend when
\* one was substituted) is disjoint from every segment and point of the
\* other paths in the index when the bend is committed
CommittedSublineDisjoint ==
    [][\A a \in Committed :
           \A e \in rb_collection.spatial_index :
               e.origin # a.rb_geom => Disjoint(a.chord[1], a.chord[2], e.geom)]_vars


\* the trimmed sub line of the bend that process_bends has come to, a bend to
\* reduce, is not disjoint from the segments of the line itself in range
SublineMeetsItself ==
    /\ pc = "process"
    /\ At(rb_geom.bends, ind).to_reduce
    /\ ~NoSubline(rb_geom, At(rb_geom.bends, ind))
    /\ ~TrimmedSublineOk(rb_geom, At(rb_geom.bends, ind),
            get_segment_intersect(rb_collection, rb_geom.id,
                                  BBox(At(rb_geom.bends, ind).qgs_geom_bend)).itself)

\* the step leaves the bend unreduced, the path and the index as they were
LeftUnreduced ==
    /\ Committed = {}
    /\ rb_geoms'[cur + 1].qgs_geom = rb_geom.qgs_geom
    /\ rb_collection' = rb_collection

\* the outcome of the step for the first safe alternate bend (alt, 0 without
\* one) of the list: the alternate passes the checks on the other paths and
\* is committed, or it fails them and the bend is left unreduced
AlternateOutcome(alternate_bends, alt, near) ==
    IF alt = 0 THEN LeftUnreduced
    ELSE IF OthersChecked(At(rb_geom.qgs_geom, alternate_bends[alt].i),
                          At(rb_geom.qgs_geom, alternate_bends[alt].j),
                          alternate_bends[alt].qgs_geom_bend, near)
         THEN \E a \in Committed :
                  a.i = alternate_bends[alt].i /\ a.j = alternate_bends[alt].j
         ELSE LeftUnreduced

\* C20: when the trimmed sub line of a flagged bend is not disjoint from a
\* segment of the same path in range, the step of process_bends does not fail
\* and either the first alternate bend, from the biggest area to the
\* smallest, with a trimmed sub line disjoint from the path takes the place of
\* the bend and goes through the checks on the other paths (committed when it
\* passes them, left unreduced when it does not), or no alternate is safe and
\* the bend is left unreduced, the path and the index unchanged
SelfMeetingBendOutcome ==
    [][(SublineMeetsItself /\ canceled' = canceled) =>
           /\ pc' # "error"
           /\ AlternateOutcome(
                  find_alternate_bends(ind, rb_geom),
                  FirstSafeAlternate(rb_geom, find_alternate_bends(ind, rb_geom),
                      get_segment_intersect(rb_collection, rb_geom.id,
                          BBox(At(rb_geom.bends, ind).qgs_geom_bend)).itself),
                  get_segment_intersect(rb_collection, rb_geom.id,
                      BBox(At(rb_geom.bends, ind).qgs_geom_bend)))]_vars


\* the sub-ranges (i', j') of a bend (i, j) that span at least two segments
SubRanges(bend) ==
    {s \in (bend.i .. bend.j) \X (bend.i .. bend.j) : s[2] - s[1] >= 2}

\* the list has each sub-range of the bend once and no other bend, from the
\* biggest polygon area to the smallest
IsAlternatesOf(alternate_bends, bend) ==
    /\ {<< alternate_bends[m].i, alternate_bends[m].j >> :
           m \in 1 .. Len(alternate_bends)} = SubRanges(bend)
    /\ Len(alternate_bends) = Cardinality(SubRanges(bend))
    /\ \A m \in 1 .. (Len(alternate_bends) - 1) :
           alternate_bends[m].area >= alternate_bends[m + 1].area

\* C21: for every bend (i, j) that detect_bends has created on a path,
\* find_alternate_bends (when it does not raise) returns each sub-range
\* (i', j') with i <= i', j' <= j and j' - i' >= 2 once, the bends that start
\* at vertex 0 included, from the biggest polygon area to the smallest
AlternatesAreSubRanges ==
    pc = "flag" =>
        \A b \in 0 .. (Len(rb_geom.bends) - 1) :
            ~find_alternate_bends_raises(b, rb_geom) =>
                IsAlternatesOf(find_alternate_bends(b, rb_geom), At(rb_geom.bends, b))


\* a bend next to bend m in the list is flagged
FlaggedNextTo(bends, m) ==
    \/ m > 1 /\ bends[m - 1].to_reduce
    \/ m < Len(bends) /\ bends[m + 1].to_reduce

\* the original statement of C22: after flag_bend_to_reduce every bend of the
\* list with an area under the minimum is flagged or next to a flagged bend
EverySmallAreaCovered ==
    [][(pc = "flag" /\ canceled' = canceled) =>
           \A m \in 1 .. Len(rb_geoms'[cur + 1].bends) :
               Area1000(rb_geoms'[cur + 1].bends[m].area)
                       < calculate_min_adj_area(diameter_tol)
                   => \/ rb_geoms'[cur + 1].bends[m].to_reduce
                      \/ FlaggedNextTo(rb_geoms'[cur + 1].bends, m)]_vars

\* the flags of the list are those of a greedy choice among the candidates
\* from the smallest adjusted area on
GreedyFlags(bends) ==
    \A m \in 1 .. Len(bends) :
        /\ bends[m].to_reduce => Candidate(bends[m]) /\ ~FlaggedNextTo(bends, m)
        /\ (Candidate(bends[m]) /\ ~bends[m].to_reduce) =>
               \/ m > 1 /\ bends[m - 1].to_reduce
                        /\ bends[m - 1].adj_area <= bends[m].adj_area
               \/ m < Len(bends) /\ bends[m + 1].to_reduce
                        /\ bends[m + 1].adj_area <= bends[m].adj_area

\* C22: after flag_bend_to_reduce the flagged bends are a maximal set of
\* bends, no two next to each other in the list, among the bends with an area
\* under the minimum and an adjusted area not over it: every such bend is
\* flagged or next to a flagged bend of adjusted area not bigger than its own
FlagsAreMaximal ==
    [][(pc = "flag" /\ canceled' = canceled) =>
           GreedyFlags(rb_geoms'[cur + 1].bends)]_vars

\* a bend with a small area but an adjusted area over the minimum is left
\* with no flag beside it, and a candidate gives way to a smaller neighbour
ThinBendNotCovered ==
    /\ pc = "process"
    /\ \E m \in 1 .. Len(rb_geom.bends) :
           /\ Area1000(rb_geom.bends[m].area) < calculate_min_adj_area(diameter_tol)
           /\ ~Candidate(rb_geom.bends[m])
           /\ ~FlaggedNextTo(rb_geom.bends, m)
    /\ \E m \in 1 .. Len(rb_geom.bends) :
           /\ Candidate(rb_geom.bends[m]) /\ ~rb_geom.bends[m].to_reduce
           /\ FlaggedNextTo(rb_geom.bends, m)


\* C23: after flag_bend_to_reduce a path with no bend left under the minimum
\* area (once the first and last bend of a closed path are dropped) is marked
\* as at its simplest form
NoSmallBendIsSimplest ==
    [][(/\ pc = "flag"
        /\ canceled' = canceled
        /\ \A m \in 1 .. Len(rb_geoms'[cur + 1].bends) :
               ~(Area1000(rb_geoms'[cur + 1].bends[m].area)
                     < calculate_min_adj_area(diameter_tol)))
           => rb_geoms'[cur + 1].is_simplest]_vars


\* the spans (i, j) of a list of bends
SpansIn(bends) == [m \in 1 .. Len(bends) |-> << bends[m].i, bends[m].j >>]

\* the first and last bend of a closed line were dropped from its list: the
\* first bend that detect_bends creates starts at vertex 0
EndBendsDropped(line) ==
    line.is_closed /\ Len(line.bends) >= 1 /\ line.bends[1].i >= 1

\* the step keeps the first two and the last two vertices of the line
KeepsEnds(old, new) ==
    /\ Len(new) >= 2
    /\ new[1] = old[1] /\ new[2] = old[2]
    /\ new[Len(new)] = old[Len(old)] /\ new[Len(new) - 1] = old[Len(old) - 1]

\* C24: for a closed path with at least 3 bends detected, flag_bend_to_reduce
\* drops the first and the last bend, the bends that touch the start/end
\* vertex, and keeps the others; no bend of the list left starts at vertex 0
\* or ends at the last vertex, and a reduction committed in the pass keeps
\* the start/end vertex and the vertex next to it on either side
EndBendsNeverReduced ==
    /\ [][(/\ pc = "flag"
           /\ canceled' = canceled
           /\ rb_geom.is_closed
           /\ Len(rb_geom.bends) >= 3)
              => /\ SpansIn(rb_geoms'[cur + 1].bends)
                     = SubSeq(SpansIn(rb_geom.bends), 2, Len(rb_geom.bends) - 1)
                 /\ \A m \in 1 .. Len(rb_geoms'[cur + 1].bends) :
                        /\ rb_geoms'[cur + 1].bends[m].i >= 1
                        /\ rb_geoms'[cur + 1].bends[m].j <= Len(rb_geom.qgs_geom) - 2]_vars
    /\ [][(pc = "process" /\ EndBendsDropped(rb_geom) /\ Committed # {})
              => /\ KeepsEnds(rb_geom.qgs_geom, rb_geoms'[cur + 1].qgs_geom)
                 /\ \A a \in Committed : a.i >= 1]_vars

\* a bend of a closed path is committed in a pass whose first and last bend
\* were dropped
ClosedMiddleBendReduced ==
    \E k \in 1 .. Len(rb_geoms) :
        /\ EndBendsDropped(rb_geoms[k])
        /\ \E a \in reduced_in_pass : a.rb_geom = rb_geoms[k].id /\ a.i >= 1


SameVertices(line, bend) ==
    /\ bend.j <= Len(line.qgs_geom) - 1
    /\ bend.qgs_geom_bend = create_polygon(bend.i, bend.j, line.qgs_geom)

\* C26: within one pass on one path the bends are processed from the highest
\* bend index to the lowest, a bend is committed under the index the loop is
\* at, and the indices i and j of every flagged bend not yet processed, the
\* bend about to be validated included, designate the vertices they did when
\* the bend was detected, whatever reductions were committed before in the
\* pass
IndicesStayValid ==
    /\ [](pc = "process" =>
             \A m \in 0 .. ind :
                 At(rb_geom.bends, m).to_reduce =>
                     SameVertices(rb_geom, At(rb_geom.bends, m)))
    /\ [][(pc = "process" /\ canceled' = canceled) =>
             /\ (pc' = "process" => cur' = cur /\ ind' = ind - 1)
             /\ (pc' = "for" => ind = 0)
             /\ \A a \in Committed :
                    /\ a.ind = ind /\ a.rb_geom = rb_geom.id
                    /\ \A b \in reduced_in_pass : b.rb_geom = a.rb_geom => b.ind > a.ind]_vars

\* a flagged bend is about to be validated after a bend of higher index of
\* the same path was committed in the pass
LowerBendAfterCommit ==
    /\ pc = "process"
    /\ At(rb_geom.bends, ind).to_reduce
    /\ \E a \in reduced_in_pass : a.rb_geom = rb_geom.id /\ a.ind > ind


\* the sum of the bends detected, and of the bends reduced, written in the
\* log lines of the passes
LoggedDetected ==
    SumSeq([k \in 1 .. Len(rb_results.lines_log_info) |->
               rb_results.lines_log_info[k].nbr_bend_detected])

LoggedReduced ==
    SumSeq([k \in 1 .. Len(rb_results.lines_log_info) |->
               rb_results.lines_log_info[k].nbr_bend_reduced])

\* the original statement of C27: at the end of a run the statistic of the
\* bends detected is the sum over all the passes of the bends detected and
\* the statistic of the bends reduced is the sum of the bends reduced of the
\* log lines
StatisticsAreSums ==
    pc = "done" =>
        /\ rb_results.nbr_bend_detected = LoggedDetected
        /\ rb_results.nbr_bend_reduced = LoggedReduced

\* C27: in a pass the count of bends reduced is the number of reductions
\* committed in the pass and the statistic of the bends reduced is the sum of
\* those of the log lines and of the pass under way; at the end of a run
\* the statistic of the bends reduced is the sum of the counts of the log
\* lines and the statistic of the bends detected is the count of the first
\* log line, the bends detected in pass 0
StatisticsOfRun ==
    /\ pc \in {"for", "flag", "process", "break"} =>
           /\ nbr_bend_reduced = Cardinality(reduced_in_pass)
           /\ rb_results.nbr_bend_reduced = LoggedReduced + nbr_bend_reduced
           /\ Len(rb_results.lines_log_info) = rb_results.nbr_pass
    /\ pc \in {"smooth", "done"} =>
           /\ rb_results.nbr_bend_reduced = LoggedReduced
           /\ rb_results.nbr_bend_detected = rb_results.lines_log_info[1].nbr_bend_detected
           /\ Len(rb_results.lines_log_info) = rb_results.nbr_pass + 1

\* a run is over in which bends were detected after pass 0 and two passes
\* reduced bends
DetectedInLaterPass ==
    /\ pc = "done"
    /\ ReducingPasses >= 2
    /\ LoggedDetected > rb_results.lines_log_info[1].nbr_bend_detected


\* the line new is the line old with two vertices more between its vertices
\* i and i + 1
TwoVerticesBetween(old, new, i) ==
    /\ Len(new) = Len(old) + 2
    /\ Slice(new, 0, i + 1) = Slice(old, 0, i + 1)
    /\ Slice(new, i + 3, Len(new)) = Slice(old, i + 1, Len(old))

\* the step of the smoothing on the reduced bend bend_reduced of the line at
\* pos: the line is changed only for a base longer than 2/3 of the tolerance
\* with its ends at the vertices i and i + 1 of the line, i >= 1 and
\* i + 1 <= n - 2, and then has two vertices more between them
SmoothStep(bend_reduced, pos) ==
    /\ \A k \in 1 .. Len(rb_geoms) : k # pos => rb_geoms'[k] = rb_geoms[k]
    /\ IF rb_geoms'[pos].qgs_geom # rb_geoms[pos].qgs_geom
       THEN /\ 9 * Dist2(bend_reduced.qgs_point_start, bend_reduced.qgs_point_end)
                   > 4 * diameter_tol * diameter_tol
            /\ \E i \in 1 .. (Len(rb_geoms[pos].qgs_geom) - 3) :
                   /\ At(rb_geoms[pos].qgs_geom, i) = bend_reduced.qgs_point_start
                   /\ At(rb_geoms[pos].qgs_geom, i + 1) = bend_reduced.qgs_point_end
                   /\ TwoVerticesBetween(rb_geoms[pos].qgs_geom,
                                         rb_geoms'[pos].qgs_geom, i)
            /\ rb_results'.nbr_line_smooth = rb_results.nbr_line_smooth + 1
       ELSE rb_results'.nbr_line_smooth = rb_results.nbr_line_smooth

\* C28: the smoothing goes once through the reduced bends recorded; it
\* inserts points for one only if the base of the bend is longer than 2/3 of
\* the tolerance and its two ends are at the vertices i and i + 1 of the
\* path as it is then, with i >= 1 and i + 1 <= n - 2; an insertion puts
\* exactly 2 new vertices between i and i + 1 and adds one to the count of
\* lines smoothed, so that an end of a base already smoothed is no more next
\* to the other end
SmoothingOnlyOnBase ==
    [][pc = "smooth" =>
           /\ bends_reduced' = bends_reduced
           /\ (pc' # "error" => ind' = ind + 1)
           /\ SmoothStep(At(bends_reduced, ind), GeomPos(At(bends_reduced, ind)))]_vars

\* the smoothing has put two vertices between the ends of the base of a
\* reduced bend
BaseSmoothed ==
    /\ pc \in {"smooth", "done"}
    /\ rb_results.nbr_line_smooth >= 1
    /\ \E m \in 1 .. Len(bends_reduced) :
           \E i \in 1 .. (Len(rb_geoms[GeomPos(bends_reduced[m])].qgs_geom) - 5) :
               /\ At(rb_geoms[GeomPos(bends_reduced[m])].qgs_geom, i)
                      = bends_reduced[m].qgs_point_start
               /\ At(rb_geoms[GeomPos(bends_reduced[m])].qgs_geom, i + 3)
                      = bends_reduced[m].qgs_point_end


\* the span (i, j) lies in a line of n vertices and holds a vertex between
\* its ends
SpanInLine(i, j, n) == 0 <= i /\ j <= n - 1 /\ j - i >= 2

\* C29: every bend that detect_bends creates on a path of n vertices, and
\* every alternate of it, has 0 <= i, j <= n - 1 and j - i >= 2; the first
\* and the last vertex of a path are never deleted: a path that is not
\* closed keeps the two ends of its input and a closed path has its first
\* vertex equal to its last
EndsAreKept ==
    /\ pc = "flag" =>
           \A m \in 1 .. Len(rb_geom.bends) :
               /\ SpanInLine(rb_geom.bends[m].i, rb_geom.bends[m].j,
                             Len(rb_geom.qgs_geom))
               /\ \A n \in 1 .. Len(AlternateSpans(rb_geom.bends[m].i, rb_geom.bends[m].j)) :
                      SpanInLine(AlternateSpans(rb_geom.bends[m].i, rb_geom.bends[m].j)[n][1],
                                 AlternateSpans(rb_geom.bends[m].i, rb_geom.bends[m].j)[n][2],
                                 Len(rb_geom.qgs_geom))
    /\ \A k \in 1 .. Len(rb_geoms) :
           /\ Len(rb_geoms[k].qgs_geom) >= 1
           /\ IF rb_geoms[k].is_closed
              THEN rb_geoms[k].qgs_geom[1] = Last(rb_geoms[k].qgs_geom)
              ELSE /\ rb_geoms[k].qgs_geom[1] = InputOf(rb_geoms[k].id)[1]
                   /\ Last(rb_geoms[k].qgs_geom) = Last(InputOf(rb_geoms[k].id))

\* a closed path was pivoted and a bend of it is reduced, and the run of a
\* path that is not closed is over with vertices less than its input
EndsKeptAfterReduction ==
    \/ \E k \in 1 .. Len(rb_geoms) :
           /\ rb_geoms[k].is_closed /\ rb_geoms[k].nbr_pivot >= 1
           /\ Len(rb_geoms[k].qgs_geom) < Len(InputOf(rb_geoms[k].id))
    \/ /\ pc = "done"
       /\ \E k \in 1 .. Len(rb_geoms) :
              /\ ~rb_geoms[k].is_closed
              /\ Len(rb_geoms[k].qgs_geom) = 2
              /\ Len(InputOf(rb_geoms[k].id)) >= 5


\* the positions of a vertex list
Positions(pts) == {pts[k] : k \in 1 .. Len(pts)}

\* a ring of at least 3 positions and the closing vertex, around some area
NotDegenerate(pts) ==
    Len(pts) >= 4 /\ Cardinality(Positions(pts)) >= 3 /\ Area2(pts) # 0

\* C30: a closed path that is not degenerate on input has, in every state of
\* the run, at least 4 vertices on at least 3 positions, and no bend of it
\* whose chord starts and ends at the same position is committed
ClosedPathNeverCollapses ==
    /\ \A k \in 1 .. Len(rb_geoms) :
           (rb_geoms[k].is_closed /\ NotDegenerate(InputOf(rb_geoms[k].id)))
               => /\ Len(rb_geoms[k].qgs_geom) >= 4
                  /\ Cardinality(Positions(rb_geoms[k].qgs_geom)) >= 3
    /\ \A a \in reduced_in_pass :
           (InputParts[a.rb_geom + 1].is_closed /\ NotDegenerate(InputOf(a.rb_geom)))
               => a.chord[1] # a.chord[2]

====
